---- MODULE Spec2Model ----
(***************************************************************************)
(* Retrieval, relevance scoring and evaluation steps of the RAG evaluation  *)
(* pipeline.                                                               *)
(*                                                                         *)
(*   src/2_alt_retriever_agent.py  parse_retrieved_references,             *)
(*                             call_with_retry, main (the retrieval driver) *)
(*   src/3_relevance_eval.py   clamp_score, compute_relevance_scores, main *)
(*   src/4_evaluator.py        parse_list_cell, contains_source_file,      *)
(*                             calculate_metrics, main (the batch driver)  *)
(*   src/5_custom_evaluator.py contains_source_file, calculate_metrics     *)
(*   src/config.py             TOP_K, EVAL_K, MAX_RETRIES                  *)
(*                                                                         *)
(* Python values are tagged records: a str is [t |-> "str", s |-> chars],  *)
(* a list is [t |-> "list", v |-> elements], float('nan') is NaN, an int   *)
(* is [t |-> "int", n |-> n].  The text of a CSV cell that holds a list    *)
(* column is a str known by what ast.literal_eval does with it (field      *)
(* lit).  A raised exception is [t |-> "raise", exc |-> name].             *)
(***************************************************************************)
EXTENDS Integers, Sequences, FiniteSets, TLC

\* ------------------------------------------------------------------ bounds

\* Longest retrieved_contexts / retrieved_file list of a generated row.
MaxRetrieved == 2
\* Most rows of a generated multi-row table.
MaxRows == 2
\* Most files of the knowledge base folder, and most runs of the question
\* generation in a row.
MaxFiles == 2
MaxRuns == 2
\* The longest relevance_scores list, and the most retrieved texts of a row
\* that carries one.
MaxScores == 3
\* Most references of one agent response.
MaxReferences == 2

\* ------------------------------------------------------------ Python values

PyStr(s) == [t |-> "str", s |-> s]
PyList(v) == [t |-> "list", v |-> v]
PyInt(n) == [t |-> "int", n |-> n]
\* float('nan'): what pandas.read_csv gives for an empty cell.
NaN == [t |-> "float", nan |-> TRUE]
\* A column the table does not have.
Missing == [t |-> "missing"]
PyNone == [t |-> "NoneType"]
Raise(e) == [t |-> "raise", exc |-> e]
\* A fraction n/d, as Python's true division of two ints yields it.
Frac(n, d) == [t |-> "float", nan |-> FALSE, n |-> n, d |-> d]
\* The str of a CSV cell; lit is the outcome of ast.literal_eval on it.
CsvText(lit) == [t |-> "str", lit |-> lit]

IsRaise(x) == x.t = "raise"
IsList(x) == x.t = "list"
IsStr(x) == x.t = "str"
IsNaN(x) == x.t = "float" /\ x.nan

\* bool(x) of a cell or element.
Truthy(x) ==
  CASE x.t = "str" -> IF "s" \in DOMAIN x THEN Len(x.s) > 0 ELSE TRUE
    [] x.t = "list" -> Len(x.v) > 0
    [] x.t = "int" -> x.n # 0
    [] x.t = "float" -> TRUE
    [] OTHER -> FALSE

\* --------------------------------------------------------------- str methods

IsSpace(c) == c \in {" ", "\t"}

LowerChar(c) ==
  CASE c = "A" -> "a"
    [] c = "B" -> "b"
    [] c = "C" -> "c"
    [] c = "D" -> "d"
    [] OTHER -> c

\* str.lower()
lower(s) == [i \in 1..Len(s) |-> LowerChar(s[i])]

\* str.split(): the maximal runs of non-whitespace characters, in order.
RECURSIVE SplitFrom(_, _, _, _)
SplitFrom(s, i, cur, acc) ==
  IF i > Len(s)
    THEN IF Len(cur) > 0 THEN Append(acc, cur) ELSE acc
    ELSE IF IsSpace(s[i])
      THEN SplitFrom(s, i + 1, <<>>, IF Len(cur) > 0 THEN Append(acc, cur) ELSE acc)
      ELSE SplitFrom(s, i + 1, Append(cur, s[i]), acc)

split(s) == SplitFrom(s, 1, <<>>, <<>>)

\* " ".join(words)
RECURSIVE join(_)
join(words) ==
  IF Len(words) = 0 THEN <<>>
  ELSE IF Len(words) = 1 THEN words[1]
  ELSE words[1] \o <<" ">> \o join(Tail(words))

\* str.strip(): leading and trailing whitespace removed.
RECURSIVE lstrip(_)
lstrip(s) == IF Len(s) > 0 /\ IsSpace(s[1]) THEN lstrip(Tail(s)) ELSE s

RECURSIVE rstrip(_)
rstrip(s) ==
  IF Len(s) > 0 /\ IsSpace(s[Len(s)]) THEN rstrip(SubSeq(s, 1, Len(s) - 1)) ELSE s

strip(s) == rstrip(lstrip(s))

\* a in b, for two strs: a is a substring of b.
str_in(a, b) ==
  \E k \in 0..(Len(b) - Len(a)) : SubSeq(b, k + 1, k + Len(a)) = a

\* str(x): a str is itself, nan is "nan", an int its decimal digits.
str(x) ==
  CASE x.t = "str" -> x.s
    [] x.t = "float" -> <<"n", "a", "n">>
    [] x.t = "int" -> IF x.n = 1 THEN <<"1">> ELSE <<"7">>
    [] OTHER -> <<"?">>

\* " ".join(text.lower().split())
clean(text) == join(split(lower(text)))

\* ------------------------------------------------- src/4_evaluator.py helpers

\* ast.literal_eval(value) on the str of a CSV cell: the Python literal the
\* text spells, or the exception raised on text that spells none
\* ("foo": ValueError, "[1,": SyntaxError, "{[]: 1}": TypeError).
literal_eval(value) == value.lit

\* pandas.isna(value) on a scalar cell.
isna(value) == value.t = "float" /\ value.nan

parse_list_cell(value) ==
  IF IsList(value) THEN value
  ELSE IF isna(value) THEN PyList(<<>>)
  ELSE IF IsStr(value) THEN
    LET parsed == literal_eval(value) IN
      IF IsRaise(parsed)
        THEN IF parsed.exc \in {"ValueError", "SyntaxError"}
               THEN PyList(<<>>)
               ELSE parsed
        ELSE IF IsList(parsed) THEN parsed ELSE PyList(<<>>)
  ELSE PyList(<<>>)

NoHit == [t |-> "tuple", hit |-> FALSE, rank |-> 0]
Hit(rank) == [t |-> "tuple", hit |-> TRUE, rank |-> rank]

\* The for loop of contains_source_file from 1-based position i on.
RECURSIVE ScanFiles(_, _, _)
ScanFiles(source_norm, retrieved_files, i) ==
  IF i > Len(retrieved_files) THEN NoHit
  ELSE IF Len(source_norm) > 0 /\ str_in(source_norm, str(retrieved_files[i]))
    THEN Hit(i)
    ELSE ScanFiles(source_norm, retrieved_files, i + 1)

\* contains_source_file without the .strip() of source_file.
contains_source_file_unstripped(source_file, retrieved_files) ==
  IF ~Truthy(source_file) \/ ~Truthy(retrieved_files) THEN NoHit
  ELSE IF ~IsList(retrieved_files) THEN Raise("TypeError")
  ELSE ScanFiles(str(source_file), retrieved_files.v, 1)

\* The same function in 4_evaluator.py and 5_custom_evaluator.py.
contains_source_file(source_file, retrieved_files) ==
  IF ~Truthy(source_file) \/ ~Truthy(retrieved_files) THEN NoHit
  ELSE IF ~IsList(retrieved_files) THEN Raise("TypeError")
  ELSE ScanFiles(strip(str(source_file)), retrieved_files.v, 1)

\* The text containment loop of calculate_metrics from position i on;
\* .lower() of a value that is no str raises AttributeError.
RECURSIVE ScanTexts(_, _, _)
ScanTexts(gt_text, retrieved_list, i) ==
  IF i > Len(retrieved_list) THEN NoHit
  ELSE IF ~IsStr(gt_text) \/ ~IsStr(retrieved_list[i]) THEN Raise("AttributeError")
  ELSE LET clean_gt == clean(gt_text.s)
           clean_ret == clean(retrieved_list[i].s)
       IN IF str_in(clean_gt, clean_ret) \/ str_in(clean_ret, clean_gt)
            THEN Hit(i)
            ELSE ScanTexts(gt_text, retrieved_list, i + 1)

\* gt_list[0] if gt_list else ""
FirstOrEmpty(gt_list) ==
  IF ~Truthy(gt_list) THEN PyStr(<<>>)
  ELSE IF IsList(gt_list) THEN gt_list.v[1]
  ELSE Raise("TypeError")

\* The two stages with the better of their two ranks taken.
HitAndRank_best_rank(row, gt_text) ==
  LET first == IF Truthy(row.source_file) /\ Truthy(row.retrieved_file)
                 THEN contains_source_file(row.source_file, row.retrieved_file)
                 ELSE NoHit
      second == IF ~IsList(row.retrieved_contexts) THEN Raise("TypeError")
                ELSE ScanTexts(gt_text, row.retrieved_contexts.v, 1)
  IN IF IsRaise(first) THEN first
     ELSE IF IsRaise(second) THEN second
     ELSE IF first.hit /\ second.hit
       THEN Hit(IF first.rank <= second.rank THEN first.rank ELSE second.rank)
     ELSE IF first.hit THEN first
     ELSE second

\* The two stages with the text stage's rank the index i of enumerate,
\* not i + 1.
HitAndRank_zero_based(row, gt_text) ==
  LET first == IF Truthy(row.source_file) /\ Truthy(row.retrieved_file)
                 THEN contains_source_file(row.source_file, row.retrieved_file)
                 ELSE NoHit
      second == IF ~IsList(row.retrieved_contexts) THEN Raise("TypeError")
                ELSE ScanTexts(gt_text, row.retrieved_contexts.v, 1)
  IN IF IsRaise(first) THEN first
     ELSE IF first.hit THEN first
     ELSE IF IsRaise(second) \/ ~second.hit THEN second
     ELSE Hit(second.rank - 1)

\* The two stages: the identifier stage, then text containment if no hit.
HitAndRank(row, gt_text) ==
  LET first == IF Truthy(row.source_file) /\ Truthy(row.retrieved_file)
                 THEN contains_source_file(row.source_file, row.retrieved_file)
                 ELSE NoHit
  IN IF IsRaise(first) THEN first
     ELSE IF first.hit THEN first
     ELSE IF ~IsList(row.retrieved_contexts) THEN Raise("TypeError")
     ELSE ScanTexts(gt_text, row.retrieved_contexts.v, 1)

max(a, b) == IF a >= b THEN a ELSE b
min(a, b) == IF a <= b THEN a ELSE b

IsDigit(c) == c \in {"0", "1", "2", "3", "4", "5", "6", "7", "8", "9"}

DigitValue(c) ==
  CASE c = "0" -> 0 [] c = "1" -> 1 [] c = "2" -> 2 [] c = "3" -> 3
    [] c = "4" -> 4 [] c = "5" -> 5 [] c = "6" -> 6 [] c = "7" -> 7
    [] c = "8" -> 8 [] c = "9" -> 9

\* float() of a str of digits with at most one point, from position i on:
\* n counts the digits read, d is 0 before the point and the power of ten
\* of the fraction after it.  Any other str is no numeral: ValueError.
RECURSIVE ParseDecimal(_, _, _, _, _)
ParseDecimal(s, i, n, d, digits) ==
  IF i > Len(s)
    THEN IF digits THEN Frac(n, max(d, 1)) ELSE Raise("ValueError")
  ELSE IF IsDigit(s[i])
    THEN ParseDecimal(s, i + 1, n * 10 + DigitValue(s[i]),
                      IF d = 0 THEN 0 ELSE d * 10, TRUE)
  ELSE IF s[i] = "." /\ d = 0 THEN ParseDecimal(s, i + 1, n, 1, digits)
  ELSE Raise("ValueError")

\* float(score): a float is itself, an int its value, a str the number it
\* spells (surrounding whitespace allowed) or ValueError; None and a list
\* give TypeError.
float(score) ==
  IF score.t = "float" THEN score
  ELSE IF score.t = "int" THEN Frac(score.n, 1)
  ELSE IF IsStr(score) THEN ParseDecimal(strip(score.s), 1, 0, 0, FALSE)
  ELSE Raise("TypeError")

\* No float(score) of line 96 raises.
ScoresNumeric(relevance_scores) ==
  \A i \in 1..Len(relevance_scores) : ~IsRaise(float(relevance_scores[i]))

\* float(score) >= 0.7; a comparison with nan is False.
AtLeastThreshold(score) ==
  LET numeric == float(score)
  IN ~numeric.nan /\ numeric.n * 10 >= 7 * numeric.d

\* Lines 91-99 with the threshold exclusive.
PrecisionAtKRelevance_exclusive(relevance_scores, retrieved_list) ==
  IF ~IsList(relevance_scores) THEN NaN
  ELSE LET k == Len(relevance_scores.v) IN
    IF k > 0 /\ k = Len(retrieved_list.v) /\ ScoresNumeric(relevance_scores.v)
      THEN Frac(Cardinality({i \in 1..k :
                  LET numeric == float(relevance_scores.v[i])
                  IN ~numeric.nan /\ numeric.n * 10 > 7 * numeric.d}), k)
      ELSE NaN

\* Lines 91-99 without the comparison of the two lengths.
PrecisionAtKRelevance_any_length(relevance_scores, retrieved_list) ==
  IF ~IsList(relevance_scores) THEN NaN
  ELSE LET k == Len(relevance_scores.v) IN
    IF k > 0 /\ ScoresNumeric(relevance_scores.v)
      THEN Frac(Cardinality({i \in 1..k : AtLeastThreshold(relevance_scores.v[i])}), k)
      ELSE NaN

\* Lines 91-99: the relevance metric of a row.
PrecisionAtKRelevance(relevance_scores, retrieved_list) ==
  IF ~IsList(relevance_scores) THEN NaN
  ELSE LET k == Len(relevance_scores.v) IN
    IF k > 0 /\ k = Len(retrieved_list.v)
      THEN IF ScoresNumeric(relevance_scores.v)
             THEN LET hits == Cardinality({i \in 1..k :
                                 AtLeastThreshold(relevance_scores.v[i])})
                  IN Frac(hits, k)
             ELSE NaN
      ELSE NaN

Metrics(hit_rate, mrr, precision, recall, relevance) ==
  [t |-> "Series",
   custom_hit_rate |-> hit_rate,
   custom_mrr |-> mrr,
   custom_precision_at_k |-> precision,
   custom_recall_at_k |-> recall,
   precision_at_k_relevance |-> relevance]

\* calculate_metrics with precision taken over the retrieved items:
\* one relevant item among len(retrieved_list).
calculate_metrics_per_retrieved(row, TOP_K) ==
  LET relevance_scores == IF row.relevance_scores.t = "missing" THEN NaN
                          ELSE row.relevance_scores
      gt_text == FirstOrEmpty(row.reference_contexts)
      found == HitAndRank(row, gt_text)
  IN IF IsRaise(found) THEN found
     ELSE Metrics(IF found.hit THEN 1 ELSE 0,
                  IF found.hit THEN Frac(1, found.rank) ELSE Frac(0, 1),
                  IF found.hit
                    THEN Frac(1, max(Len(row.retrieved_contexts.v), 1))
                    ELSE Frac(0, 1),
                  IF found.hit THEN 1 ELSE 0,
                  PrecisionAtKRelevance(relevance_scores, row.retrieved_contexts))

\* calculate_metrics with "if hit else 0" left off the precision.
calculate_metrics_precision_unguarded(row, TOP_K) ==
  LET relevance_scores == IF row.relevance_scores.t = "missing" THEN NaN
                          ELSE row.relevance_scores
      gt_text == FirstOrEmpty(row.reference_contexts)
      found == HitAndRank(row, gt_text)
  IN IF IsRaise(found) THEN found
     ELSE Metrics(IF found.hit THEN 1 ELSE 0,
                  IF found.hit THEN Frac(1, found.rank) ELSE Frac(0, 1),
                  Frac(1, max(TOP_K, 1)),
                  IF found.hit THEN 1 ELSE 0,
                  PrecisionAtKRelevance(relevance_scores, row.retrieved_contexts))

\* calculate_metrics of 4_evaluator.py on a row of the parsed table.
calculate_metrics(row, TOP_K) ==
  LET relevance_scores == IF row.relevance_scores.t = "missing" THEN NaN
                          ELSE row.relevance_scores
      gt_text == FirstOrEmpty(row.reference_contexts)
      found == HitAndRank(row, gt_text)
  IN IF IsRaise(found) THEN found
     ELSE LET hit == found.hit
              rank == found.rank
              precision_k == max(TOP_K, 1)
          IN Metrics(IF hit THEN 1 ELSE 0,
                     IF hit THEN Frac(1, rank) ELSE Frac(0, 1),
                     IF hit THEN Frac(1, precision_k) ELSE Frac(0, 1),
                     IF hit THEN 1 ELSE 0,
                     PrecisionAtKRelevance(relevance_scores, row.retrieved_contexts))

\* ------------------------------------------------- src/5_custom_evaluator.py

\* "if isinstance(x, str): x = ast.literal_eval(x)" on a raw cell.
EvalIfStr(x) == IF IsStr(x) THEN literal_eval(x) ELSE x

\* calculate_metrics of 5_custom_evaluator.py on a row as read from the CSV.
calculate_metrics_5(row, EVAL_K) ==
  LET gt_list == EvalIfStr(row.reference_contexts)
      retrieved_list == EvalIfStr(row.retrieved_contexts)
      retrieved_files == IF row.retrieved_file.t = "missing" THEN PyList(<<>>)
                         ELSE EvalIfStr(row.retrieved_file)
  IN IF IsRaise(gt_list) THEN gt_list
     ELSE IF IsRaise(retrieved_list) THEN retrieved_list
     ELSE IF IsRaise(retrieved_files) THEN retrieved_files
     ELSE LET gt_text == FirstOrEmpty(gt_list) IN
       IF IsRaise(gt_text) THEN gt_text
       ELSE LET found == HitAndRank([source_file |-> row.source_file,
                                     retrieved_file |-> retrieved_files,
                                     retrieved_contexts |-> retrieved_list],
                                    gt_text)
         IN IF IsRaise(found) THEN found
            ELSE IF found.hit /\ EVAL_K = 0 THEN Raise("ZeroDivisionError")
            ELSE Metrics(IF found.hit THEN 1 ELSE 0,
                         IF found.hit THEN Frac(1, found.rank) ELSE Frac(0, 1),
                         IF found.hit THEN Frac(1, EVAL_K) ELSE Frac(0, 1),
                         IF found.hit THEN 1 ELSE 0,
                         Missing)

\* ---------------------------------------------------------------- inputs

\* config.TOP_K and config.EVAL_K when the environment sets neither.
DefaultK == 3
\* Values the environment may give TOP_K or EVAL_K.
KValues == {-1, 0, 1, DefaultK}

SeqsUpTo(S, n) == UNION {[1..k -> S] : k \in 0..n}

\* Reference chunks: "A  b" (cleaned: "a b") and "C".
RefAb == PyStr(<<"A", " ", " ", "b">>)
RefC == PyStr(<<"C">>)
\* Retrieved chunks: "a B\tc" contains the cleaned "a b"; "b" is contained in
\* it; "c" is unrelated to it and equals the cleaned "C"; " " cleans to "".
TextAbc == PyStr(<<"a", " ", "B", "\t", "c">>)
TextB == PyStr(<<"b">>)
TextC == PyStr(<<"c">>)
TextBlank == PyStr(<<" ">>)
ContextTexts == {TextAbc, TextB, TextC, TextBlank}
RefLists == {<<>>, <<RefAb>>, <<RefC>>, <<RefC, RefAb>>}

\* Retrieved identifiers: "banana" contains "a" and "nan", "a.md" only "a",
\* the int 1 neither.
UriBanana == PyStr(<<"b", "a", "n", "a", "n", "a">>)
UriA == PyStr(<<"a", ".", "m", "d">>)
Uris == {UriBanana, UriA, PyInt(1)}
\* source_file cells: empty cell (nan), "", blank, " a ".
SourceA == PyStr(<<" ", "a", " ">>)
SourceBlank == PyStr(<<" ">>)
Sources == {NaN, PyStr(<<>>), SourceBlank, SourceA}

ListCells(S, n) == {CsvText(PyList(l)) : l \in SeqsUpTo(S, n)}

\* Well-formed rows: every list column holds the text of a list of strs.
RichRows ==
  [reference_contexts : {CsvText(PyList(l)) : l \in RefLists},
   retrieved_contexts : ListCells(ContextTexts, MaxRetrieved),
   retrieved_file : ListCells(Uris, MaxRetrieved),
   source_file : Sources,
   relevance_scores : {Missing}]

\* Cells that hold no list: empty cell, text that is no literal ("foo",
\* "[1,", "{[]: 1}"), text of a literal that is no list ("42"), a number.
OddCells ==
  {NaN, CsvText(Raise("ValueError")), CsvText(Raise("SyntaxError")),
   CsvText(Raise("TypeError")), CsvText(PyInt(42)), PyInt(5)}

\* Rows with malformed list cells or list elements that are no strs.  A cell
\* that already is a list comes from a table built in memory, not from
\* read_csv; parse_list_cell passes it through.
OddRows ==
  [reference_contexts : OddCells \cup {CsvText(PyList(<<RefAb>>)),
                                       CsvText(PyList(<<PyInt(7)>>))},
   retrieved_contexts : OddCells \cup {PyList(<<TextB>>),
                                       CsvText(PyList(<<TextB>>)),
                                       CsvText(PyList(<<PyInt(7)>>)),
                                       CsvText(PyList(<<TextC, PyInt(7)>>)),
                                       CsvText(PyList(<<TextB, PyInt(7)>>)),
                                       CsvText(PyList(<<PyInt(7), TextB>>))},
   retrieved_file : OddCells \cup {Missing, CsvText(PyList(<<UriBanana>>)),
                                   CsvText(PyList(<<PyInt(1)>>))},
   source_file : {NaN, SourceA},
   relevance_scores : {Missing, NaN, CsvText(PyList(<<Frac(9, 10)>>))}]

\* Rows of the multi-row tables: an identifier hit at rank 1, a text hit at
\* rank 2, a miss, a row whose retrieved text is no str, a row whose
\* retrieved_file cell is the text "{[]: 1}".
RowOf(ref, ctx, files, source) ==
  [reference_contexts |-> ref, retrieved_contexts |-> ctx,
   retrieved_file |-> files, source_file |-> source,
   relevance_scores |-> Missing]

CoarseRows ==
  {RowOf(CsvText(PyList(<<RefAb>>)), CsvText(PyList(<<TextC>>)),
         CsvText(PyList(<<UriA>>)), SourceA),
   RowOf(CsvText(PyList(<<RefAb>>)), CsvText(PyList(<<TextC, TextB>>)),
         CsvText(PyList(<<UriA, UriA>>)), NaN),
   RowOf(CsvText(PyList(<<RefAb>>)), CsvText(PyList(<<TextC>>)),
         CsvText(PyList(<<UriA>>)), NaN),
   RowOf(CsvText(PyList(<<RefAb>>)), CsvText(PyList(<<PyInt(7)>>)),
         CsvText(PyList(<<UriA>>)), NaN),
   RowOf(CsvText(PyList(<<RefAb>>)), CsvText(PyList(<<TextB>>)),
         CsvText(Raise("TypeError")), SourceA)}

\* Relevance scores: 0.9, 0.4, 0.75 and the threshold 0.7 itself.
Scores == {Frac(9, 10), Frac(4, 10), Frac(75, 100), Frac(7, 10)}

\* The lists a relevance_scores cell may spell: floats, and lists with an
\* entry that is no float: the int 1, the strs "0.9" and "high", None.
ScoreLists ==
  SeqsUpTo(Scores, MaxScores)
    \cup {<<PyInt(1)>>, <<PyStr(<<"0", ".", "9">>)>>,
          <<PyStr(<<"h", "i", "g", "h">>)>>,
          <<Frac(9, 10), PyStr(<<"h", "i", "g", "h">>)>>,
          <<PyNone>>, <<Frac(9, 10), PyNone>>}

\* Rows with a relevance_scores column (or without one): the reference
\* "A  b" is found in the retrieved text "a B\tc" and not in "c"; one
\* identifier per retrieved text, none containing a source_file.
RelevanceRows ==
  {[reference_contexts |-> CsvText(PyList(<<RefAb>>)),
    retrieved_contexts |-> CsvText(PyList(ctx)),
    retrieved_file |-> CsvText(PyList([i \in 1..Len(ctx) |-> UriA])),
    source_file |-> NaN,
    relevance_scores |-> scores] :
     ctx \in SeqsUpTo({TextC, TextAbc}, MaxScores),
     scores \in {Missing, NaN} \cup {CsvText(PyList(l)) : l \in ScoreLists}}

\* The tables PIPELINE_CSV may hold: one row of any kind, or several rows.
Tables ==
  {<<r>> : r \in RichRows \cup OddRows \cup RelevanceRows}
    \cup UNION {[1..n -> CoarseRows] : n \in 2..MaxRows}

\* PIPELINE_CSV: absent, or a table of at least one row.
Inputs ==
  {[exists |-> FALSE, rows |-> <<>>]}
    \cup {[exists |-> TRUE, rows |-> t] : t \in Tables}

Configs(s) ==
  IF s = "4_evaluator"
    THEN {[TOP_K |-> k, EVAL_K |-> DefaultK] : k \in KValues}
    ELSE {[TOP_K |-> DefaultK, EVAL_K |-> k] : k \in KValues}

\* ----------------------------------------------------------------- state

VARIABLES
  script,      \* the script that runs, by the name of its file
  config,      \* the values of config.py the script reads
  csv,         \* the content of config.PIPELINE_CSV
  pc,          \* where the run is
  df,          \* main's table
  raised,      \* the exception that ended the run and the function that raised it
  \* 4_evaluator.py, 5_custom_evaluator.py
  metrics_df,  \* the metric rows df.apply has produced so far
  final_df,    \* df with the metric columns appended
  files,       \* the three result files; <<>> when not written
  \* 2_alt_retriever_agent.py
  attempt,               \* call_with_retry's loop variable for the current row
  error_log,             \* main's error_log
  retrieved_data,        \* main's list of the rows' retrieved texts
  retrieved_files_data,  \* main's list of the rows' retrieved identifiers
  response,              \* what the last finished call_with_retry returned
  invocations,           \* the outcomes of fn() in the current or last call_with_retry
  sleeps,                \* what time.sleep was given in that call, in tenths of a second
  \* 3_relevance_eval.py
  all_pairs,         \* compute_relevance_scores: the [query, chunk] pairs
  row_chunk_counts,  \* compute_relevance_scores: chunks per row
  all_scores,        \* compute_relevance_scores: the clamped scores so far
  relevance_scores,  \* main: what compute_relevance_scores returned
  reranker_calls,    \* the calls of reranker.compute_score: pairs sent, scores got
  \* 1_generate_user_inputs.py
  progress_log,      \* the lines of generation_progress.jsonl
  processed_pairs,   \* main's set of finished (file, style) pairs
  position,          \* main's place in the loops over files and styles
  submitted,         \* the pairs handed to generate_question_for_style in this run
  answers,           \* what the LLM answered to the last of them, and to the repair
  \* streamlit/app.py
  filtered_df,       \* main: what render_filters returned
  cards,             \* _render_kpi_cards: the cards shown
  grouped,           \* render_query_style_chart: the bar of each query_style
  group_score        \* render_compare_datasets_tab: compute_group_score of the dataset

evaluator_locals == <<metrics_df, final_df, files>>
retriever_locals ==
  <<attempt, error_log, retrieved_data, retrieved_files_data, response,
    invocations, sleeps>>
relevance_locals ==
  <<all_pairs, row_chunk_counts, all_scores, relevance_scores, reranker_calls>>
generator_locals == <<progress_log, processed_pairs, position, submitted, answers>>
dashboard_locals == <<filtered_df, cards, grouped, group_score>>

vars ==
  <<script, config, csv, pc, df, raised,
    evaluator_locals, retriever_locals, relevance_locals,
    generator_locals, dashboard_locals>>

\* The locals of a script that is not running.
NoFiles ==
  [results_csv |-> <<>>, results_parquet |-> <<>>, streamlit_parquet |-> <<>>]

EvaluatorIdle ==
  /\ metrics_df = <<>>
  /\ final_df = <<>>
  /\ files = NoFiles

RetrieverIdle ==
  /\ attempt = 0
  /\ error_log = <<>>
  /\ retrieved_data = <<>>
  /\ retrieved_files_data = <<>>
  /\ response = PyNone
  /\ invocations = <<>>
  /\ sleeps = <<>>

RelevanceIdle ==
  /\ all_pairs = <<>>
  /\ row_chunk_counts = <<>>
  /\ all_scores = <<>>
  /\ relevance_scores = PyNone
  /\ reranker_calls = <<>>

GeneratorIdle ==
  /\ progress_log = <<>>
  /\ processed_pairs = {}
  /\ position = [run |-> 0, file |-> 0, style |-> 0]
  /\ submitted = <<>>
  /\ answers = <<>>

DashboardIdle ==
  /\ filtered_df = <<>>
  /\ cards = <<>>
  /\ grouped = PyNone
  /\ group_score = PyNone

NoException == [exc |-> "", in |-> ""]
Exception(e, f) == [exc |-> e, in |-> f]

REQUIRED_COLUMNS ==
  {"reference_contexts", "retrieved_contexts", "retrieved_file", "source_file"}

\* col in df.columns
HasColumn(rows, col) == rows[1][col].t # "missing"

Init ==
  /\ script \in {"4_evaluator", "5_custom_evaluator"}
  /\ config \in Configs(script)
  /\ csv \in Inputs
  /\ pc = "start"
  /\ df = <<>>
  /\ raised = NoException
  /\ EvaluatorIdle
  /\ RetrieverIdle
  /\ RelevanceIdle
  /\ GeneratorIdle
  /\ DashboardIdle

\* main, lines 104-114: read the CSV; return when the file or a required
\* column is missing.
Load ==
  /\ script = "4_evaluator"
  /\ pc = "start"
  /\ IF ~csv.exists
       THEN pc' = "returned" /\ df' = df
       ELSE IF \E col \in REQUIRED_COLUMNS : ~HasColumn(csv.rows, col)
         THEN pc' = "returned" /\ df' = csv.rows
         ELSE pc' = "loaded" /\ df' = csv.rows
  /\ UNCHANGED <<script, config, csv, metrics_df, final_df, files, raised>>
  /\ UNCHANGED <<retriever_locals, relevance_locals, generator_locals, dashboard_locals>>

\* The list columns of a row after .apply(parse_list_cell).
ParsedRow(row) ==
  [reference_contexts |-> parse_list_cell(row.reference_contexts),
   retrieved_contexts |-> parse_list_cell(row.retrieved_contexts),
   retrieved_file |-> parse_list_cell(row.retrieved_file),
   source_file |-> row.source_file,
   relevance_scores |-> IF row.relevance_scores.t = "missing"
                          THEN Missing
                          ELSE parse_list_cell(row.relevance_scores)]

ListColumns ==
  {"reference_contexts", "retrieved_contexts", "retrieved_file", "relevance_scores"}

\* main, lines 116-120: parse the list columns; an exception of
\* parse_list_cell ends the run.
ParseColumns ==
  /\ pc = "loaded"
  /\ LET parsed == [i \in 1..Len(df) |-> ParsedRow(df[i])]
         bad == {e \in {"TypeError"} :
                   \E i \in 1..Len(df) : \E col \in ListColumns :
                     parsed[i][col] = Raise(e)}
     IN IF bad = {}
          THEN pc' = "parsed" /\ df' = parsed /\ raised' = raised
          ELSE /\ pc' = "raised"
               /\ df' = df
               /\ raised' = Exception(CHOOSE e \in bad : TRUE, "parse_list_cell")
  /\ UNCHANGED <<script, config, csv, metrics_df, final_df, files>>
  /\ UNCHANGED <<retriever_locals, relevance_locals, generator_locals, dashboard_locals>>

\* main, line 124: df.apply(calculate_metrics, axis=1) scores the next row;
\* an exception of calculate_metrics ends the run.
ApplyRow ==
  /\ pc = "parsed"
  /\ Len(metrics_df) < Len(df)
  /\ LET m == calculate_metrics(df[Len(metrics_df) + 1], config.TOP_K)
     IN IF IsRaise(m)
          THEN /\ pc' = "raised"
               /\ raised' = Exception(m.exc, "calculate_metrics")
               /\ metrics_df' = metrics_df
          ELSE /\ pc' = pc
               /\ raised' = raised
               /\ metrics_df' = Append(metrics_df, m)
  /\ UNCHANGED <<script, config, csv, df, final_df, files>>
  /\ UNCHANGED <<retriever_locals, relevance_locals, generator_locals, dashboard_locals>>

\* One row of pd.concat([df, metrics_df], axis=1).
ConcatRow(row, m) ==
  [reference_contexts |-> row.reference_contexts,
   retrieved_contexts |-> row.retrieved_contexts,
   retrieved_file |-> row.retrieved_file,
   source_file |-> row.source_file,
   relevance_scores |-> row.relevance_scores,
   custom_hit_rate |-> m.custom_hit_rate,
   custom_mrr |-> m.custom_mrr,
   custom_precision_at_k |-> m.custom_precision_at_k,
   custom_recall_at_k |-> m.custom_recall_at_k,
   precision_at_k_relevance |-> m.precision_at_k_relevance]

\* main, lines 125-133: name the metric columns and append them to df.
Concat ==
  /\ pc = "parsed"
  /\ Len(metrics_df) = Len(df)
  /\ final_df' = [i \in 1..Len(df) |-> ConcatRow(df[i], metrics_df[i])]
  /\ pc' = "concat"
  /\ UNCHANGED <<script, config, csv, df, metrics_df, files, raised>>
  /\ UNCHANGED <<retriever_locals, relevance_locals, generator_locals, dashboard_locals>>

\* DataFrame.to_csv writes a list cell as the text of the list.
to_csv_cell(x) == IF IsList(x) THEN CsvText(x) ELSE x

to_csv(table) ==
  [i \in 1..Len(table) |->
     [table[i] EXCEPT !.reference_contexts = to_csv_cell(@),
                      !.retrieved_contexts = to_csv_cell(@),
                      !.retrieved_file = to_csv_cell(@),
                      !.relevance_scores = to_csv_cell(@)]]

\* to_csv of line 141 with the path of the input, config.PIPELINE_CSV.
WriteCsv_over_input ==
  /\ pc = "concat"
  /\ csv' = [exists |-> TRUE, rows |-> to_csv(final_df)]
  /\ files' = [files EXCEPT !.results_csv = to_csv(final_df)]
  /\ pc' = "csv_written"
  /\ UNCHANGED <<script, config, df, metrics_df, final_df, raised>>
  /\ UNCHANGED <<retriever_locals, relevance_locals, generator_locals, dashboard_locals>>

\* main, lines 140-141
WriteCsv ==
  /\ pc = "concat"
  /\ files' = [files EXCEPT !.results_csv = to_csv(final_df)]
  /\ pc' = "csv_written"
  /\ UNCHANGED <<script, config, csv, df, metrics_df, final_df, raised>>
  /\ UNCHANGED <<retriever_locals, relevance_locals, generator_locals, dashboard_locals>>

\* main, lines 143-144
WriteParquet ==
  /\ pc = "csv_written"
  /\ files' = [files EXCEPT !.results_parquet = final_df]
  /\ pc' = "parquet_written"
  /\ UNCHANGED <<script, config, csv, df, metrics_df, final_df, raised>>
  /\ UNCHANGED <<retriever_locals, relevance_locals, generator_locals, dashboard_locals>>

\* main, lines 146-151
WriteStreamlit ==
  /\ pc = "parquet_written"
  /\ files' = [files EXCEPT !.streamlit_parquet = final_df]
  /\ pc' = "done"
  /\ UNCHANGED <<script, config, csv, df, metrics_df, final_df, raised>>
  /\ UNCHANGED <<retriever_locals, relevance_locals, generator_locals, dashboard_locals>>

\* 5_custom_evaluator.py: calculate_metrics called on a row as read from
\* the CSV (no column is parsed beforehand).
Score5 ==
  /\ script = "5_custom_evaluator"
  /\ pc = "start"
  /\ csv.exists
  /\ \E i \in 1..Len(csv.rows) :
       LET m == calculate_metrics_5(csv.rows[i], config.EVAL_K)
       IN /\ df' = <<csv.rows[i]>>
          /\ IF IsRaise(m)
               THEN /\ pc' = "raised"
                    /\ raised' = Exception(m.exc, "calculate_metrics")
                    /\ metrics_df' = metrics_df
               ELSE /\ pc' = "scored"
                    /\ raised' = raised
                    /\ metrics_df' = <<m>>
  /\ UNCHANGED <<script, config, csv, final_df, files>>
  /\ UNCHANGED <<retriever_locals, relevance_locals, generator_locals, dashboard_locals>>

\* main run once more on the same PIPELINE_CSV with the same configuration,
\* after a run that completed: main's locals start afresh, the result files
\* of the earlier run are still there.
Rerun ==
  /\ script = "4_evaluator"
  /\ pc = "done"
  /\ pc' = "start"
  /\ df' = <<>>
  /\ metrics_df' = <<>>
  /\ final_df' = <<>>
  /\ UNCHANGED <<script, config, csv, files, raised>>
  /\ UNCHANGED <<retriever_locals, relevance_locals, generator_locals, dashboard_locals>>

Next ==
  \/ Load
  \/ ParseColumns
  \/ ApplyRow
  \/ Concat
  \/ WriteCsv
  \/ WriteParquet
  \/ WriteStreamlit
  \/ Score5

Spec == Init /\ [][Next]_vars

\* What a results file holds when the call that writes table to it is
\* interrupted: to_csv and to_parquet write in place, so the file holds
\* what it held before (the call had not opened it) or the rows written so
\* far, any prefix of the table.
PartlyWritten(before, table) ==
  {before} \cup {SubSeq(table, 1, n) : n \in 0..Len(table)}

\* main of 4_evaluator.py interrupted (KeyboardInterrupt, kill) wherever it
\* is, also inside one of the three writes of lines 141-147; main has no
\* handler and cleans nothing up.
Interrupt ==
  /\ script = "4_evaluator"
  /\ pc \in {"start", "loaded", "parsed", "concat", "csv_written", "parquet_written"}
  /\ pc' = "interrupted"
  /\ files' \in
       CASE pc = "concat" ->
              {[files EXCEPT !.results_csv = content] :
                 content \in PartlyWritten(files.results_csv, to_csv(final_df))}
         [] pc = "csv_written" ->
              {[files EXCEPT !.results_parquet = content] :
                 content \in PartlyWritten(files.results_parquet, final_df)}
         [] pc = "parquet_written" ->
              {[files EXCEPT !.streamlit_parquet = content] :
                 content \in PartlyWritten(files.streamlit_parquet, final_df)}
         [] OTHER -> {files}
  /\ UNCHANGED <<script, config, csv, df, metrics_df, final_df, raised>>
  /\ UNCHANGED <<retriever_locals, relevance_locals, generator_locals, dashboard_locals>>

\* Runs of the evaluator that may be interrupted.
NextInterrupt ==
  \/ Next
  \/ Interrupt

SpecInterrupt == Init /\ [][NextInterrupt]_vars

\* Runs of the evaluator that may be followed by another run.
NextTwice ==
  \/ Next
  \/ Rerun

SpecTwice == Init /\ [][NextTwice]_vars

\* ----------------------------------------------- src/1_generate_user_inputs.py

\* NO_GENERATION_SENTINEL and the style names of QUERY_STYLES, each cut
\* down to two characters; two of the nine styles.
NO_GENERATION_SENTINEL == <<"N", "o">>
QUERY_STYLES == <<[style_name |-> <<"K", "w">>], [style_name |-> <<"H", "p">>]>>

\* filename[:9]
extract_bd_code(filename) ==
  IF Len(filename) = 0 THEN <<>> ELSE SubSeq(filename, 1, min(9, Len(filename)))

\* The Markdown files the folder may hold, by name: two chunks of one
\* document, a file of fewer than 30 characters, a file that cannot be
\* read.  chunk_text stands for the text, length for its len().
KbFile(name, text, length, readable) ==
  [file_path |-> <<"B", "D", "-", "0", "0", "0", "0", "0">> \o name,
   chunk_text |-> PyStr(text), length |-> length, readable |-> readable]

KbFiles ==
  <<KbFile(<<"1", "_", "a">>, <<"a">>, 40, TRUE),
    KbFile(<<"1", "_", "b">>, <<"b">>, 40, TRUE),
    KbFile(<<"2", "_", "c">>, <<"c">>, 12, TRUE),
    KbFile(<<"3", "_", "d">>, <<"d">>, 40, FALSE)>>

\* sorted(glob.glob(...)) of a folder with at most MaxFiles of them; None
\* stands for a folder that does not exist.
KbFolders ==
  {PyNone}
    \cup {[t |-> "list",
           v |-> [i \in 1..Cardinality(S) |->
                    KbFiles[CHOOSE x \in S : Cardinality({y \in S : y < x}) = i - 1]]] :
            S \in {T \in SUBSET (1..Len(KbFiles)) : Cardinality(T) <= MaxFiles}}

\* The text of an LLM answer once the reasoning is cut out: what stands in
\* the style_name tag and in the user_input tag, Missing for a tag that is
\* not there.
LlmContent(style, text) == [t |-> "str", style_name |-> style, user_input |-> text]

\* What the LLM may answer for a style: under the style's name in lower
\* case with a blank after it, a quoted question over two lines, the
\* sentinel in quotes after a blank, or a blank; the question under another
\* name; or no tags.
LlmContents(style_name) ==
  {LlmContent(PyStr(lower(style_name) \o <<" ">>), PyStr(text)) :
     text \in {<<"\"", "q", "\n", "?", "\"">>, <<" ", "\"", "N", "o", "\"">>, <<" ">>}}
    \cup {LlmContent(PyStr(<<"z">>), PyStr(<<"\"", "q", "\n", "?", "\"">>)),
          LlmContent(Missing, Missing)}

\* load_processed_pairs without the pairs that were skipped.
load_processed_pairs_generated_only(log) ==
  {<<log[i].file_path, log[i].style_name>> :
     i \in {j \in 1..Len(log) : log[j].status = "generated"}}

\* load_processed_pairs: the pairs of the lines whose status is generated
\* or skipped_no_generation.
load_processed_pairs(log) ==
  {<<log[i].file_path, log[i].style_name>> :
     i \in {j \in 1..Len(log) :
              log[j].status \in {"generated", "skipped_no_generation"}}}

\* normalize_style_name: whitespace collapsed, stripped, lower case
\* (accents are not modelled).
normalize_style_name(style_name) == clean(style_name)

\* question_text.replace('"', "").replace("\n", " ")
Unquoted(text) ==
  LET kept == SelectSeq(text, LAMBDA c : c # "\"")
  IN [i \in 1..Len(kept) |-> IF kept[i] = "\n" THEN " " ELSE kept[i]]

Found(question_text, style_found) ==
  [t |-> "tuple", question_text |-> question_text, style_found |-> style_found]

\* parse_llm_xml without the removal of the quotes.
parse_llm_xml_keep_quotes(content, allowed_styles) ==
  IF Missing \in {content.style_name, content.user_input} THEN PyNone
  ELSE LET question_text == strip(content.user_input.s)
           matching == {a \in 1..Len(allowed_styles) :
                          normalize_style_name(allowed_styles[a])
                            = normalize_style_name(strip(content.style_name.s))}
       IN IF Len(question_text) = 0 \/ matching = {} THEN PyNone
          ELSE Found(question_text,
                     allowed_styles[CHOOSE a \in matching : \A b \in matching : a <= b])

\* parse_llm_xml: None unless both tags are there, the query is not blank
\* and the style is an allowed one, which is then returned by its own name.
parse_llm_xml(content, allowed_styles) ==
  IF Missing \in {content.style_name, content.user_input} THEN PyNone
  ELSE LET question_text == strip(Unquoted(strip(content.user_input.s)))
           matching == {a \in 1..Len(allowed_styles) :
                          normalize_style_name(allowed_styles[a])
                            = normalize_style_name(strip(content.style_name.s))}
       IN IF Len(question_text) = 0 \/ matching = {} THEN PyNone
          ELSE Found(question_text,
                     allowed_styles[CHOOSE a \in matching : \A b \in matching : a <= b])

\* generate_question_for_style on the answer to the prompt and, if asked
\* for, the answer to the repair prompt.  first is None when the retries of
\* invoke_model are used up, an exception when the body of the response
\* cannot be read; repair is None when the retries of the repair are.
generate_question_for_style(style_name, first, repair) ==
  IF first = PyNone \/ IsRaise(first) THEN first
  ELSE LET parsed == parse_llm_xml(first, <<style_name>>)
       IN IF parsed # PyNone THEN parsed
          ELSE IF repair = PyNone THEN PyNone
          ELSE parse_llm_xml(repair, <<style_name>>)

\* The answers a call of generate_question_for_style may meet; the repair
\* is asked for only when the first answer does not parse.
LlmAnswers(style_name) ==
  {<<first>> : first \in {PyNone, Raise("JSONDecodeError")} \cup
                 {c \in LlmContents(style_name) :
                    parse_llm_xml(c, <<style_name>>) # PyNone}}
    \cup {<<first, repair>> :
            first \in {c \in LlmContents(style_name) :
                         parse_llm_xml(c, <<style_name>>) = PyNone},
            repair \in {PyNone, LlmContent(Missing, Missing)} \cup
                        {c \in LlmContents(style_name) :
                           parse_llm_xml(c, <<style_name>>) # PyNone}}

\* main, lines 405-410: the row of a generated question, as the CSV holds it.
GeneratedRow(file, generated_question, style_used) ==
  [user_input |-> PyStr(generated_question),
   reference_contexts |-> CsvText(PyList(<<file.chunk_text>>)),
   query_style |-> PyStr(style_used),
   source_file |-> PyStr(extract_bd_code(file.file_path))]

\* append_row_to_csv
append_row_to_csv(table, row) == [exists |-> TRUE, rows |-> Append(table.rows, row)]

\* append_progress (the timestamp is left out)
append_progress(log, file_path, style_name, status) ==
  Append(log, [file_path |-> file_path, style_name |-> style_name, status |-> status])

\* The place after the pair at hand, and the next file's first pair.
NextPair(at) ==
  IF at.style < Len(QUERY_STYLES) THEN [at EXCEPT !.style = at.style + 1]
  ELSE [at EXCEPT !.file = at.file + 1, !.style = 1]
NextFile(at) == [at EXCEPT !.file = at.file + 1, !.style = 1]

InitGenerator ==
  /\ script = "1_generate_user_inputs"
  /\ config \in {[KB_FOLDER |-> folder] : folder \in KbFolders}
  /\ csv = [exists |-> FALSE, rows |-> <<>>]
  /\ pc = "start"
  /\ df = <<>>
  /\ raised = NoException
  /\ EvaluatorIdle
  /\ RetrieverIdle
  /\ RelevanceIdle
  /\ GeneratorIdle
  /\ DashboardIdle

\* main, lines 336-369: list the files and load the pairs that are done.
StartRun ==
  /\ script = "1_generate_user_inputs"
  /\ pc = "start"
  /\ IF config.KB_FOLDER = PyNone \/ Len(config.KB_FOLDER.v) = 0
       THEN pc' = "returned" /\ UNCHANGED <<processed_pairs, position>>
       ELSE /\ processed_pairs' = load_processed_pairs(progress_log)
            /\ position' = [run |-> position.run + 1, file |-> 1, style |-> 1]
            /\ pc' = "generating"
  /\ submitted' = <<>>
  /\ answers' = <<>>
  /\ UNCHANGED <<script, config, csv, df, raised, progress_log>>
  /\ UNCHANGED <<evaluator_locals, retriever_locals, relevance_locals, dashboard_locals>>

\* main, lines 371-416: one pass of the loop over the styles, with the
\* reading of the file before its first style.  A file that cannot be read
\* or is shorter than 30 characters is passed over; so is a pair that is
\* done.  Else the question is generated: a failure leaves no trace, the
\* sentinel is logged as skipped, a question is appended to the CSV and
\* logged as generated; an exception ends the styles of this file.
ProcessPair ==
  /\ pc = "generating"
  /\ position.file <= Len(config.KB_FOLDER.v)
  /\ LET file == config.KB_FOLDER.v[position.file]
         style_name == QUERY_STYLES[position.style].style_name
         pair_key == <<file.file_path, style_name>>
     IN IF ~file.readable \/ file.length < 30
          THEN /\ position' = NextFile(position)
               /\ UNCHANGED <<csv, progress_log, processed_pairs, submitted, answers>>
        ELSE IF pair_key \in processed_pairs
          THEN /\ position' = NextPair(position)
               /\ UNCHANGED <<csv, progress_log, processed_pairs, submitted, answers>>
        ELSE \E answered \in LlmAnswers(style_name) :
               LET got == generate_question_for_style(
                            style_name, answered[1],
                            IF Len(answered) = 2 THEN answered[2] ELSE PyNone)
               IN /\ submitted' = Append(submitted, pair_key)
                  /\ answers' = answered
                  /\ IF got = PyNone
                       THEN /\ position' = NextPair(position)
                            /\ UNCHANGED <<csv, progress_log, processed_pairs>>
                     ELSE IF IsRaise(got)
                       THEN /\ position' = NextFile(position)
                            /\ UNCHANGED <<csv, progress_log, processed_pairs>>
                     ELSE IF got.question_text = NO_GENERATION_SENTINEL
                       THEN /\ progress_log' = append_progress(
                                 progress_log, file.file_path, style_name,
                                 "skipped_no_generation")
                            /\ processed_pairs' = processed_pairs \cup {pair_key}
                            /\ position' = NextPair(position)
                            /\ csv' = csv
                     ELSE /\ csv' = append_row_to_csv(
                                 csv, GeneratedRow(file, got.question_text, got.style_found))
                          /\ progress_log' = append_progress(
                                 progress_log, file.file_path, style_name, "generated")
                          /\ processed_pairs' = processed_pairs \cup {pair_key}
                          /\ position' = NextPair(position)
  /\ UNCHANGED <<script, config, pc, df, raised>>
  /\ UNCHANGED <<evaluator_locals, retriever_locals, relevance_locals, dashboard_locals>>

\* main, lines 418-441: the loop over the files is over.
FinishRun ==
  /\ pc = "generating"
  /\ position.file > Len(config.KB_FOLDER.v)
  /\ pc' = "done"
  /\ UNCHANGED <<script, config, csv, df, raised>>
  /\ UNCHANGED <<evaluator_locals, retriever_locals, relevance_locals,
                 generator_locals, dashboard_locals>>

\* The script is started again, after a run that ended or was interrupted.
RerunGenerator ==
  /\ script = "1_generate_user_inputs"
  /\ pc \in {"done", "interrupted"}
  /\ position.run < MaxRuns
  /\ pc' = "start"
  /\ UNCHANGED <<script, config, csv, df, raised>>
  /\ UNCHANGED <<evaluator_locals, retriever_locals, relevance_locals,
                 generator_locals, dashboard_locals>>

\* The run is interrupted (Ctrl-C, a kill) while a pair is at hand: before
\* anything is written for it, or between append_row_to_csv of line 411 and
\* append_progress of line 413.
InterruptGenerator ==
  /\ pc = "generating"
  /\ position.file <= Len(config.KB_FOLDER.v)
  /\ LET file == config.KB_FOLDER.v[position.file]
         style_name == QUERY_STYLES[position.style].style_name
     IN \/ csv' = csv
        \/ /\ file.readable /\ file.length >= 30
           /\ <<file.file_path, style_name>> \notin processed_pairs
           /\ csv' = append_row_to_csv(csv, GeneratedRow(file, <<"q", " ", "?">>, style_name))
  /\ pc' = "interrupted"
  /\ UNCHANGED <<script, config, df, raised>>
  /\ UNCHANGED <<evaluator_locals, retriever_locals, relevance_locals,
                 generator_locals, dashboard_locals>>

NextGenerator ==
  \/ StartRun
  \/ ProcessPair
  \/ FinishRun
  \/ RerunGenerator

SpecGenerator == InitGenerator /\ [][NextGenerator]_vars

NextGeneratorInterrupt == NextGenerator \/ InterruptGenerator

SpecGeneratorInterrupt == InitGenerator /\ [][NextGeneratorInterrupt]_vars

\* ----------------------------------------------- src/2_alt_retriever_agent.py

\* clean_text: "" for a falsy text, else its words joined by single spaces.
clean_text(text) ==
  IF ~Truthy(text) THEN PyStr(<<>>) ELSE PyStr(join(split(str(text))))

\* dict.get(key, default) on a field that may be missing.
get(value, default) == IF value.t = "missing" THEN default ELSE value

\* extract_s3_uri: location.s3Location.uri if present and non-empty, else
\* metadata["x-amz-bedrock-kb-source-uri"], else "".
extract_s3_uri(reference) ==
  LET uri == get(reference.location_uri, PyStr(<<>>))
  IN IF Truthy(uri) THEN uri ELSE get(reference.metadata_uri, PyStr(<<>>))

\* Concatenation of the sequences of a sequence, in order.
RECURSIVE Flatten(_)
Flatten(seqs) ==
  IF Len(seqs) = 0 THEN <<>> ELSE Head(seqs) \o Flatten(Tail(seqs))

\* The references of a response in the order the three nested loops of
\* parse_retrieved_references visit them: events, citations, references.
Visited(agent_response) ==
  Flatten([e \in 1..Len(agent_response.completion) |->
             Flatten(agent_response.completion[e].citations)])

Parsed(retrieved_texts, retrieved_files) ==
  [t |-> "tuple", retrieved_texts |-> retrieved_texts,
   retrieved_files |-> retrieved_files]

\* The loop body with the text appended before the test of seen.
RECURSIVE ParseFrom_append_before_seen(_, _, _, _, _)
ParseFrom_append_before_seen(references, i, seen, retrieved_texts, retrieved_files) ==
  IF i > Len(references) THEN Parsed(retrieved_texts, retrieved_files)
  ELSE LET text == clean_text(get(references[i].text, PyStr(<<>>)))
           uri == extract_s3_uri(references[i])
           key == <<text, uri>>
       IN IF key \in seen
            THEN ParseFrom_append_before_seen(references, i + 1, seen,
                   Append(retrieved_texts, text), retrieved_files)
            ELSE ParseFrom_append_before_seen(references, i + 1, seen \cup {key},
                   Append(retrieved_texts, text), Append(retrieved_files, uri))

\* The loop body of parse_retrieved_references (lines 90-97) from the i-th
\* visited reference on.
RECURSIVE ParseFrom(_, _, _, _, _)
ParseFrom(references, i, seen, retrieved_texts, retrieved_files) ==
  IF i > Len(references) THEN Parsed(retrieved_texts, retrieved_files)
  ELSE LET text == clean_text(get(references[i].text, PyStr(<<>>)))
           uri == extract_s3_uri(references[i])
           key == <<text, uri>>
       IN IF key \in seen
            THEN ParseFrom(references, i + 1, seen, retrieved_texts, retrieved_files)
            ELSE ParseFrom(references, i + 1, seen \cup {key},
                           Append(retrieved_texts, text),
                           Append(retrieved_files, uri))

parse_retrieved_references(agent_response) ==
  ParseFrom(Visited(agent_response), 1, {}, <<>>, <<>>)

\* config.MAX_RETRIES when the environment does not set it, and the values
\* the environment may give it.
DefaultRetries == 3
RetryValues == {0, 1, DefaultRetries}

\* The references an agent response may cite: "x  y" at location "a"; "x y"
\* whose identifier "a" is in the metadata only (the same pair once the
\* text is cleaned); "x y" at location "b"; a reference with neither text
\* nor identifier.
AgentReferences ==
  {[text |-> PyStr(<<"x", " ", " ", "y">>), location_uri |-> PyStr(<<"a">>),
    metadata_uri |-> Missing],
   [text |-> PyStr(<<"x", " ", "y">>), location_uri |-> Missing,
    metadata_uri |-> PyStr(<<"a">>)],
   [text |-> PyStr(<<"x", " ", "y">>), location_uri |-> PyStr(<<"b">>),
    metadata_uri |-> PyStr(<<"a">>)],
   [text |-> Missing, location_uri |-> Missing, metadata_uri |-> Missing]}

\* An event of the completion stream with the citations of its chunk; an
\* event without chunk or attribution has none.
Event(citations) == [citations |-> citations]

\* The responses invoke_agent may return for up to MaxReferences references:
\* all in one citation, one citation each in one event, or one event each
\* after an event that carries no chunk.
AgentResponses ==
  UNION {{[completion |-> <<Event(<<refs>>)>>],
          [completion |-> <<Event([i \in 1..Len(refs) |-> <<refs[i]>>])>>],
          [completion |-> <<Event(<<>>)>>
                            \o [i \in 1..Len(refs) |-> Event(<<<<refs[i]>>>>)]]} :
           refs \in SeqsUpTo(AgentReferences, MaxReferences)}

\* The exceptions invoke_agent may raise.
AgentErrors == {"ClientError", "TimeoutError"}

\* What the agent may answer to a query: anything to "q", and to any other
\* query nothing or the first reference.
Query == PyStr(<<"q">>)
OtherQuery == PyStr(<<"r">>)

AgentResponsesFor(query) ==
  IF query = Query.s THEN AgentResponses
  ELSE {[completion |-> <<>>],
        [completion |-> <<Event(<<<<CHOOSE ref \in AgentReferences :
                                      ref.location_uri = PyStr(<<"a">>)>>>>)>>]}

\* PIPELINE_CSV as the retrieval step finds it: absent, without a
\* user_input column, or with one to MaxRows queries, "q" the last of them,
\* an empty cell among them.
RetrieverInputs ==
  {[exists |-> FALSE, rows |-> <<>>],
   [exists |-> TRUE, rows |-> <<[user_input |-> Missing]>>],
   [exists |-> TRUE, rows |-> <<[user_input |-> NaN]>>]}
    \cup {[exists |-> TRUE,
           rows |-> [i \in 1..n |->
                       [user_input |-> IF i = n THEN Query ELSE OtherQuery]]] :
            n \in 1..MaxRows}

\* The retry settings of config.py, times in tenths of a second: the
\* default base of 1.0 s and jitter of 0.3 s; the default cap of 8.0 s, or
\* with the default MAX_RETRIES a cap of 2.0 s, which the third wait reaches.
RetryConfigs ==
  {[MAX_RETRIES |-> r, BACKOFF_BASE_SECONDS |-> 10,
    BACKOFF_MAX_SECONDS |-> IF r = DefaultRetries THEN 20 ELSE 80,
    BACKOFF_JITTER_SECONDS |-> 3] : r \in RetryValues}

\* backoff_sleep without the cap.
backoff_sleep_uncapped(n) ==
  {config.BACKOFF_BASE_SECONDS * 2^n + jitter :
     jitter \in {0, config.BACKOFF_JITTER_SECONDS}}

\* backoff_sleep(attempt): what time.sleep may be given; random.uniform
\* draws the jitter, here one of its two ends.
backoff_sleep(n) ==
  LET base == config.BACKOFF_BASE_SECONDS * 2^n
      sleep_for == min(base, config.BACKOFF_MAX_SECONDS)
  IN {sleep_for + jitter : jitter \in {0, config.BACKOFF_JITTER_SECONDS}}

\* call_with_retry, line 45, with one attempt more.
ShouldBackoff_once_more(n) == n <= config.MAX_RETRIES

\* call_with_retry, line 45: attempt < config.MAX_RETRIES.
ShouldBackoff(n) == n < config.MAX_RETRIES

\* call_with_retry, lines 47-55, with the entry in place of the log.
Logged_alone(log, operation_name, last_error) ==
  <<[operation |-> operation_name, error |-> last_error]>>

\* call_with_retry, lines 47-55: error_log.append of the operation and the
\* last error (the timestamp is left out).
Logged(log, operation_name, last_error) ==
  Append(log, [operation |-> operation_name, error |-> last_error])

\* retrieve_contexts_from_agent, lines 113-117, with a message for the
\* texts of a failed retrieval.
retrieve_contexts_from_agent_message(agent_response) ==
  IF agent_response = PyNone THEN Parsed(<<PyStr(<<"?">>)>>, <<>>)
  ELSE parse_retrieved_references(agent_response)

\* retrieve_contexts_from_agent, lines 113-117, on what call_with_retry
\* returned.
retrieve_contexts_from_agent(agent_response) ==
  IF agent_response = PyNone THEN Parsed(<<>>, <<>>)
  ELSE parse_retrieved_references(agent_response)

InitRetriever ==
  /\ script = "2_alt_retriever_agent"
  /\ config \in RetryConfigs
  /\ csv \in RetrieverInputs
  /\ pc = "start"
  /\ df = <<>>
  /\ raised = NoException
  /\ EvaluatorIdle
  /\ RetrieverIdle
  /\ RelevanceIdle
  /\ GeneratorIdle
  /\ DashboardIdle

\* main, lines 121-137: read the CSV; return when the file or the
\* user_input column is missing.
LoadQueries ==
  /\ script = "2_alt_retriever_agent"
  /\ pc = "start"
  /\ IF ~csv.exists
       THEN pc' = "returned" /\ df' = df
       ELSE IF ~HasColumn(csv.rows, "user_input")
         THEN pc' = "returned" /\ df' = csv.rows
         ELSE pc' = "retrieving" /\ df' = csv.rows
  /\ UNCHANGED <<script, config, csv, raised>>
  /\ UNCHANGED <<evaluator_locals, retriever_locals, relevance_locals, generator_locals, dashboard_locals>>

\* main, lines 139-145, for the row at hand: one pass of the loop of
\* call_with_retry inside retrieve_contexts_from_agent, the first pass
\* included.  invoke_agent returns a response, which ends the loop, is
\* parsed and appended; or it raises, and the loop sleeps and goes on or,
\* after the last attempt, logs the error and returns None, so that the row
\* gets [] and [].
InvokeAgent ==
  /\ pc \in {"retrieving", "calling"}
  /\ Len(retrieved_data) < Len(df)
  /\ LET row == df[Len(retrieved_data) + 1]
         query == IF isna(row.user_input) THEN <<>> ELSE str(row.user_input)
         n == IF pc = "calling" THEN attempt ELSE 0
         tried == IF pc = "calling" THEN invocations ELSE <<>>
         slept == IF pc = "calling" THEN sleeps ELSE <<>>
     IN \/ \E agent_response \in AgentResponsesFor(query) :
             LET got == retrieve_contexts_from_agent(agent_response)
             IN /\ response' = agent_response
                /\ retrieved_data' = Append(retrieved_data, PyList(got.retrieved_texts))
                /\ retrieved_files_data' =
                     Append(retrieved_files_data, PyList(got.retrieved_files))
                /\ invocations' = Append(tried, "returned")
                /\ attempt' = n
                /\ sleeps' = slept
                /\ error_log' = error_log
                /\ pc' = "retrieving"
        \/ \E e \in AgentErrors :
             IF ShouldBackoff(n)
               THEN /\ \E sleep_for \in backoff_sleep(n) :
                         sleeps' = Append(slept, sleep_for)
                    /\ invocations' = Append(tried, e)
                    /\ attempt' = n + 1
                    /\ pc' = "calling"
                    /\ UNCHANGED <<error_log, retrieved_data, retrieved_files_data,
                                   response>>
               ELSE LET got == retrieve_contexts_from_agent(PyNone)
                    IN /\ error_log' = Logged(error_log, "invoke_agent", e)
                       /\ response' = PyNone
                       /\ retrieved_data' =
                            Append(retrieved_data, PyList(got.retrieved_texts))
                       /\ retrieved_files_data' =
                            Append(retrieved_files_data, PyList(got.retrieved_files))
                       /\ invocations' = Append(tried, e)
                       /\ attempt' = n
                       /\ sleeps' = slept
                       /\ pc' = "retrieving"
  /\ UNCHANGED <<script, config, csv, df, raised>>
  /\ UNCHANGED <<evaluator_locals, relevance_locals, generator_locals, dashboard_locals>>

\* main, lines 147-169: set the two columns and write the table back to
\* PIPELINE_CSV (the run summary with the errors goes to a file of its own).
SaveRetrieved ==
  /\ pc = "retrieving"
  /\ Len(retrieved_data) = Len(df)
  /\ df' = [i \in 1..Len(df) |->
              [user_input |-> df[i].user_input,
               retrieved_contexts |-> retrieved_data[i],
               retrieved_file |-> retrieved_files_data[i]]]
  /\ csv' = [exists |-> TRUE,
             rows |-> [i \in 1..Len(df) |->
                         [user_input |-> df[i].user_input,
                          retrieved_contexts |-> to_csv_cell(retrieved_data[i]),
                          retrieved_file |-> to_csv_cell(retrieved_files_data[i])]]]
  /\ pc' = "done"
  /\ UNCHANGED <<script, config, raised>>
  /\ UNCHANGED <<evaluator_locals, retriever_locals, relevance_locals, generator_locals, dashboard_locals>>

NextRetriever ==
  \/ LoadQueries
  \/ InvokeAgent
  \/ SaveRetrieved

SpecRetriever == InitRetriever /\ [][NextRetriever]_vars

\* The script runs on: no step that can be taken is put off forever.
FairSpecRetriever == SpecRetriever /\ WF_vars(NextRetriever)

\* ---------------------------------------------------- src/3_relevance_eval.py

SCORE_BATCH_SIZE == 64
TARGET_PROGRESS_UPDATES == 20

\* is_empty_text: None, nan or a str(value) that is blank.
is_empty_text(value) ==
  value.t = "NoneType" \/ isna(value) \/ Len(strip(str(value))) = 0

\* clamp_score: a comparison with nan is False, so nan is returned as it is.
clamp_score(score) ==
  LET numeric == float(score)
  IN IF IsRaise(numeric) THEN numeric
     ELSE IF ~numeric.nan /\ numeric.n < 0 THEN Frac(0, 1)
     ELSE IF ~numeric.nan /\ numeric.n > numeric.d THEN Frac(1, 1)
     ELSE numeric

\* Lines 88-94 for one row: the query and the chunks of its pairs, or the
\* exception parse_list_cell raises (its code is that of 4_evaluator.py).
RowPairs(row) ==
  LET query == IF is_empty_text(row.user_input) THEN <<>> ELSE str(row.user_input)
      parsed == parse_list_cell(row.retrieved_contexts)
  IN IF IsRaise(parsed) THEN parsed
     ELSE PyList([i \in 1..Len(parsed.v) |->
                    [query |-> query, chunk |-> str(parsed.v[i])]])

\* Lines 126-133: row_values = all_scores[cursor:cursor + chunk_count] for
\* the counts from position r on.
RECURSIVE SplitFrom3(_, _, _, _)
SplitFrom3(counts, r, cursor, scores) ==
  IF r > Len(counts) THEN <<>>
  ELSE <<PyList(SubSeq(scores, cursor + 1, min(cursor + counts[r], Len(scores))))>>
         \o SplitFrom3(counts, r + 1, cursor + counts[r], scores)

\* dynamic_batch_size without the cap of SCORE_BATCH_SIZE.
dynamic_batch_size_uncapped == max(1, Len(all_pairs) \div TARGET_PROGRESS_UPDATES)

\* Lines 100-103
dynamic_batch_size ==
  min(SCORE_BATCH_SIZE, max(1, Len(all_pairs) \div TARGET_PROGRESS_UPDATES))

\* The scores the reranker may give a pair: below 0, inside [0, 1], above
\* 1, nan.
RerankerScores == {Frac(-1, 10), Frac(1, 2), Frac(12, 10), NaN}

\* What reranker.compute_score may return for a batch: for one pair any of
\* these scores, in a list or bare; for several pairs the list of their
\* scores, which here the first character of the chunk decides (eighths,
\* so that "9" is scored above 1).
BatchScores(batch_pairs) ==
  IF Len(batch_pairs) = 1
    THEN {PyList(<<s>>) : s \in RerankerScores} \cup RerankerScores
    ELSE {PyList([i \in 1..Len(batch_pairs) |->
                    IF IsDigit(batch_pairs[i].chunk[1])
                      THEN Frac(DigitValue(batch_pairs[i].chunk[1]), 8)
                      ELSE Frac(1, 2)])}

\* PIPELINE_CSV as the relevance step finds it.  Cells of retrieved_contexts:
\* the text of a list of strs and ints, an empty cell, text that spells no
\* list ("42") or that ast.literal_eval rejects with TypeError.
ContextCells ==
  ListCells({TextB, PyInt(7)}, MaxRetrieved)
    \cup {NaN, CsvText(PyInt(42)), CsvText(Raise("TypeError"))}

RelevanceRow(user_input, retrieved_contexts, scores) ==
  [user_input |-> user_input, retrieved_contexts |-> retrieved_contexts,
   relevance_scores |-> scores]

\* The rows of the tables of several rows: no chunk, one chunk, two chunks.
CoarseContextRows ==
  {RelevanceRow(Query, CsvText(PyList(<<>>)), Missing),
   RelevanceRow(Query, CsvText(PyList(<<TextB>>)), Missing),
   RelevanceRow(NaN, CsvText(PyList(<<TextB, PyInt(7)>>)), Missing)}

\* A row of n chunks "1", "2", ... "9", "0", "1", ... and the tables of
\* many chunks: 40 and 45 pairs are scored two at a time, 1300 pairs 64 at
\* a time.
ManyChunksRow(n) ==
  RelevanceRow(Query,
               CsvText(PyList([i \in 1..n |->
                                 PyStr(<<<<"0", "1", "2", "3", "4", "5", "6", "7",
                                           "8", "9">>[(i % 10) + 1]>>)])),
               Missing)

ManyChunksTables ==
  {<<ManyChunksRow(40)>>, <<ManyChunksRow(30), ManyChunksRow(15)>>,
   <<ManyChunksRow(1300)>>}

RelevanceInputs ==
  {[exists |-> FALSE, rows |-> <<>>],
   [exists |-> TRUE, rows |-> <<RelevanceRow(Missing, CsvText(PyList(<<>>)), Missing)>>],
   [exists |-> TRUE, rows |-> <<RelevanceRow(Query, Missing, Missing)>>]}
    \cup {[exists |-> TRUE, rows |-> <<RelevanceRow(u, c, old)>>] :
            u \in {Query, NaN, PyStr(<<" ">>)}, c \in ContextCells,
            old \in {Missing, CsvText(PyList(<<Frac(1, 2)>>))}}
    \cup {[exists |-> TRUE, rows |-> t] :
            t \in UNION {[1..n -> CoarseContextRows] : n \in 2..MaxRows}}
    \cup {[exists |-> TRUE, rows |-> t] : t \in ManyChunksTables}

REQUIRED_COLUMNS_3 == {"user_input", "retrieved_contexts"}

InitRelevance ==
  /\ script = "3_relevance_eval"
  /\ config = [PIPELINE_CSV |-> "pipeline_state.csv"]
  /\ csv \in RelevanceInputs
  /\ pc = "start"
  /\ df = <<>>
  /\ raised = NoException
  /\ EvaluatorIdle
  /\ RetrieverIdle
  /\ RelevanceIdle
  /\ GeneratorIdle
  /\ DashboardIdle

\* main, lines 137-147
LoadContexts ==
  /\ script = "3_relevance_eval"
  /\ pc = "start"
  /\ IF ~csv.exists
       THEN pc' = "returned" /\ df' = df
       ELSE IF \E col \in REQUIRED_COLUMNS_3 : ~HasColumn(csv.rows, col)
         THEN pc' = "returned" /\ df' = csv.rows
         ELSE pc' = "loaded" /\ df' = csv.rows
  /\ UNCHANGED <<script, config, csv, raised>>
  /\ UNCHANGED <<evaluator_locals, retriever_locals, relevance_locals, generator_locals, dashboard_locals>>

\* main, lines 149-151: get_reranker gives None when FlagEmbedding cannot
\* be imported.
GetReranker ==
  /\ pc = "loaded"
  /\ pc' \in {"returned", "reranker"}
  /\ UNCHANGED <<script, config, csv, df, raised>>
  /\ UNCHANGED <<evaluator_locals, retriever_locals, relevance_locals, generator_locals, dashboard_locals>>

\* compute_relevance_scores, lines 79-97: the pairs of all rows; without
\* any, one empty list per row is returned at once.
PreparePairs ==
  /\ pc = "reranker"
  /\ LET pairs == [r \in 1..Len(df) |-> RowPairs(df[r])]
     IN IF \E r \in 1..Len(df) : IsRaise(pairs[r])
          THEN /\ pc' = "raised"
               /\ raised' = Exception("TypeError", "parse_list_cell")
               /\ UNCHANGED relevance_locals
          ELSE /\ raised' = raised
               /\ all_pairs' = Flatten([r \in 1..Len(df) |-> pairs[r].v])
               /\ row_chunk_counts' = [r \in 1..Len(df) |-> Len(pairs[r].v)]
               /\ IF \A r \in 1..Len(df) : Len(pairs[r].v) = 0
                    THEN /\ relevance_scores' = [r \in 1..Len(df) |-> PyList(<<>>)]
                         /\ pc' = "scored"
                    ELSE /\ relevance_scores' = relevance_scores
                         /\ pc' = "scoring"
               /\ UNCHANGED <<all_scores, reranker_calls>>
  /\ UNCHANGED <<script, config, csv, df>>
  /\ UNCHANGED <<evaluator_locals, retriever_locals, generator_locals, dashboard_locals>>

\* compute_relevance_scores, lines 118-124: one batch.  The reranker returns
\* one score per pair of the batch, so the batch that comes next starts at
\* the pair after the last score.
ScoreBatch ==
  /\ pc = "scoring"
  /\ Len(all_scores) < Len(all_pairs)
  /\ LET start == Len(all_scores)
         batch_pairs == SubSeq(all_pairs, start + 1,
                               min(start + dynamic_batch_size, Len(all_pairs)))
     IN \E batch_scores \in BatchScores(batch_pairs) :
          LET scores == IF IsList(batch_scores) THEN batch_scores.v
                        ELSE <<batch_scores>>
          IN /\ all_scores' =
                  all_scores \o [i \in 1..Len(scores) |-> clamp_score(scores[i])]
             /\ reranker_calls' =
                  Append(reranker_calls, [pairs |-> batch_pairs, scores |-> batch_scores])
  /\ UNCHANGED <<all_pairs, row_chunk_counts, relevance_scores>>
  /\ UNCHANGED <<script, config, csv, pc, df, raised>>
  /\ UNCHANGED <<evaluator_locals, retriever_locals, generator_locals, dashboard_locals>>

\* compute_relevance_scores, lines 126-133: the scores split by row.
SplitScores ==
  /\ pc = "scoring"
  /\ Len(all_scores) = Len(all_pairs)
  /\ relevance_scores' = SplitFrom3(row_chunk_counts, 1, 0, all_scores)
  /\ pc' = "scored"
  /\ UNCHANGED <<all_pairs, row_chunk_counts, all_scores, reranker_calls>>
  /\ UNCHANGED <<script, config, csv, df, raised>>
  /\ UNCHANGED <<evaluator_locals, retriever_locals, generator_locals, dashboard_locals>>

\* main, lines 156-163: replace the relevance_scores column and write the
\* table back to PIPELINE_CSV.
SaveScores ==
  /\ pc = "scored"
  /\ df' = [r \in 1..Len(df) |->
              [df[r] EXCEPT !.relevance_scores = relevance_scores[r]]]
  /\ csv' = [exists |-> TRUE,
             rows |-> [r \in 1..Len(df) |->
                         [df[r] EXCEPT !.relevance_scores =
                                         to_csv_cell(relevance_scores[r])]]]
  /\ pc' = "done"
  /\ UNCHANGED <<script, config, raised>>
  /\ UNCHANGED <<evaluator_locals, retriever_locals, relevance_locals, generator_locals, dashboard_locals>>

NextRelevance ==
  \/ LoadContexts
  \/ GetReranker
  \/ PreparePairs
  \/ ScoreBatch
  \/ SplitScores
  \/ SaveScores

SpecRelevance == InitRelevance /\ [][NextRelevance]_vars

\* ------------------------------------------------------ src/streamlit/app.py

\* The columns of custom_metrics, in its order, and the format of each.
custom_metrics ==
  <<"custom_mrr", "custom_hit_rate", "custom_precision_at_k", "custom_recall_at_k">>
MetricFormat(col_name) == IF col_name = "custom_hit_rate" THEN "percent" ELSE "float"

\* sum(values) of floats that are numbers, as an exact fraction.
RECURSIVE sum(_)
sum(values) ==
  IF Len(values) = 0 THEN Frac(0, 1)
  ELSE LET rest == sum(Tail(values))
       IN Frac(Head(values).n * rest.d + rest.n * Head(values).d,
               Head(values).d * rest.d)

\* Series.mean() with every nan cell counted as 0.
mean_nan_as_zero(cells) ==
  IF Len(cells) = 0 THEN NaN
  ELSE LET total == sum([i \in 1..Len(cells) |->
                           IF cells[i].nan THEN Frac(0, 1) ELSE cells[i]])
       IN Frac(total.n, total.d * Len(cells))

\* Series.mean(): nan cells are skipped (skipna), the mean of no number is
\* nan.
mean(cells) ==
  LET numbers == SelectSeq(cells, LAMBDA x : ~x.nan)
  IN IF Len(numbers) = 0 THEN NaN
     ELSE Frac(sum(numbers).n, sum(numbers).d * Len(numbers))

\* df[col_name] as a sequence of cells.
Column(rows, col_name) == [i \in 1..Len(rows) |-> rows[i][col_name]]

\* col_name in df.columns; a frame without rows read from no file has no
\* columns.
InColumns(rows, col_name) == Len(rows) > 0 /\ HasColumn(rows, col_name)

\* _format_metric_value: "N/D" for nan, else the value rounded to three
\* decimals (".3f") or to a tenth of a percent (".1%"): thousandths either
\* way, ties to the even neighbour.
_format_metric_value(value, fmt) ==
  IF value.nan THEN PyStr(<<"N", "/", "D">>)
  ELSE LET q == (value.n * 1000) \div value.d
           r == (value.n * 1000) % value.d
       IN [t |-> "str", fmt |-> fmt,
           thousandths |-> IF 2 * r > value.d \/ (2 * r = value.d /\ q % 2 = 1)
                             THEN q + 1 ELSE q]

\* The means of the metric columns the frame has.
MetricMeans(rows) ==
  LET present == SelectSeq(custom_metrics, LAMBDA c : InColumns(rows, c))
  IN [m \in 1..Len(present) |->
        [label |-> present[m], value |-> mean(Column(rows, present[m]))]]

\* compute_group_score, and score_val of _render_kpi_cards: the mean of the
\* means that are numbers, None without any.
compute_group_score(rows) ==
  LET values == SelectSeq([m \in 1..Len(MetricMeans(rows)) |-> MetricMeans(rows)[m].value],
                          LAMBDA x : ~x.nan)
  IN IF Len(values) = 0 THEN PyNone
     ELSE Frac(sum(values).n, sum(values).d * Len(values))

\* _render_kpi_cards: one card per metric column of the frame, then the
\* card of the overall score when some mean is a number.
_render_kpi_cards(rows) ==
  LET means == MetricMeans(rows)
      score_val == compute_group_score(rows)
  IN [m \in 1..Len(means) |->
        [label |-> means[m].label,
         value |-> _format_metric_value(means[m].value, MetricFormat(means[m].label))]]
     \o (IF score_val = PyNone THEN <<>>
         ELSE <<[label |-> "PUNTAJE GENERAL",
                 value |-> _format_metric_value(score_val, "percent")]>>)

\* render_query_style_chart: df.groupby("query_style")[metric_col].mean();
\* rows whose query_style is nan belong to no group.
render_query_style_chart(rows, metric_col) ==
  IF ~InColumns(rows, "query_style") \/ ~InColumns(rows, metric_col) THEN PyNone
  ELSE LET styles == {rows[i].query_style : i \in 1..Len(rows)} \ {NaN}
       IN [t |-> "DataFrame",
           mean |-> [style \in styles |->
                       mean(Column(SelectSeq(rows, LAMBDA r : r.query_style = style),
                                   metric_col))]]

\* render_filters: the chosen styles when some are chosen, then the rows
\* without a hit when failures_only is on.
render_filters(rows, sel_styles, failures_only) ==
  LET out == IF sel_styles = {} THEN rows
             ELSE SelectSeq(rows, LAMBDA r : r.query_style \in sel_styles)
  IN IF failures_only /\ InColumns(out, "custom_hit_rate")
       THEN SelectSeq(out, LAMBDA r : r.custom_hit_rate.nan \/ r.custom_hit_rate.n = 0)
       ELSE out

\* The datasets of complete_datasets.  A row holds the metrics 4_evaluator.py
\* writes for a miss, a hit at rank 1 or 2 (K = 2), or cells without a
\* number, which pd.to_numeric(errors="coerce") turns into nan.
StyleA == PyStr(<<"k">>)
StyleB == PyStr(<<"h">>)

DatasetRow(style, hit, mrr, precision) ==
  [query_style |-> style, custom_hit_rate |-> hit, custom_mrr |-> mrr,
   custom_precision_at_k |-> precision, custom_recall_at_k |-> hit]

DatasetRows ==
  {DatasetRow(style, m[1], m[2], m[3]) :
     style \in {StyleA, StyleB, NaN},
     m \in {<<Frac(0, 1), Frac(0, 1), Frac(0, 1)>>,
            <<Frac(1, 1), Frac(1, 1), Frac(1, 2)>>,
            <<Frac(1, 1), Frac(1, 2), Frac(1, 2)>>,
            <<Frac(1, 1), Frac(1, 1), NaN>>,
            <<NaN, NaN, NaN>>}}

\* A frame without the columns query_style and custom_precision_at_k.
WithoutColumns(rows) ==
  [i \in 1..Len(rows) |->
     [rows[i] EXCEPT !.query_style = Missing, !.custom_precision_at_k = Missing]]

Datasets ==
  {[exists |-> FALSE, rows |-> <<>>], [exists |-> TRUE, rows |-> <<>>]}
    \cup {[exists |-> TRUE, rows |-> t] :
            t \in UNION {[1..n -> DatasetRows] : n \in 1..MaxRows}}
    \cup {[exists |-> TRUE, rows |-> WithoutColumns(<<r>>)] : r \in DatasetRows}

\* The styles the sidebar offers: sorted(df["query_style"].dropna().unique()).
all_styles(rows) ==
  IF InColumns(rows, "query_style")
    THEN {rows[i].query_style : i \in 1..Len(rows)} \ {NaN}
    ELSE {}

InitDashboard ==
  /\ script = "streamlit/app"
  /\ csv \in Datasets
  /\ config \in [sel_styles : SUBSET all_styles(csv.rows),
                 failures_only : BOOLEAN,
                 selected_metric : {"custom_mrr", "custom_hit_rate"}]
  /\ pc = "start"
  /\ df = <<>>
  /\ raised = NoException
  /\ EvaluatorIdle
  /\ RetrieverIdle
  /\ RelevanceIdle
  /\ GeneratorIdle
  /\ DashboardIdle

\* main, lines 1014-1032: load_data, then render_filters; an empty frame
\* ends the run with a message.
LoadData ==
  /\ script = "streamlit/app"
  /\ pc = "start"
  /\ df' = csv.rows
  /\ IF Len(csv.rows) = 0
       THEN pc' = "returned" /\ filtered_df' = filtered_df
       ELSE /\ filtered_df' = render_filters(csv.rows, config.sel_styles,
                                             config.failures_only)
            /\ pc' = IF Len(filtered_df') = 0 THEN "returned" ELSE "filtered"
  /\ UNCHANGED <<script, config, csv, raised, cards, grouped, group_score>>
  /\ UNCHANGED <<evaluator_locals, retriever_locals, relevance_locals, generator_locals>>

\* render_global_metrics_overview_tab: the cards of the filtered frame.
RenderKpiCards ==
  /\ pc = "filtered"
  /\ cards' = _render_kpi_cards(filtered_df)
  /\ pc' = "cards"
  /\ UNCHANGED <<script, config, csv, df, raised, filtered_df, grouped, group_score>>
  /\ UNCHANGED <<evaluator_locals, retriever_locals, relevance_locals, generator_locals>>

\* render_interactive_metric_group: the chart of the selected metric by
\* query_style.
RenderMetricGroup ==
  /\ pc = "cards"
  /\ grouped' = render_query_style_chart(filtered_df, config.selected_metric)
  /\ pc' = "chart"
  /\ UNCHANGED <<script, config, csv, df, raised, filtered_df, cards, group_score>>
  /\ UNCHANGED <<evaluator_locals, retriever_locals, relevance_locals, generator_locals>>

\* render_compare_datasets_tab: the score of the dataset as loaded, for the
\* highlight.
RenderCompare ==
  /\ pc = "chart"
  /\ group_score' = compute_group_score(df)
  /\ pc' = "done"
  /\ UNCHANGED <<script, config, csv, df, raised, filtered_df, cards, grouped>>
  /\ UNCHANGED <<evaluator_locals, retriever_locals, relevance_locals, generator_locals>>

NextDashboard ==
  \/ LoadData
  \/ RenderKpiCards
  \/ RenderMetricGroup
  \/ RenderCompare

SpecDashboard == InitDashboard /\ [][NextDashboard]_vars

\* ------------------------------------------------------- what the claims say

\* The rows calculate_metrics has been applied to, each with what the call
\* gave: the metric tuple, or the exception it raised.  The row is as the
\* function receives it: parsed by main in 4_evaluator.py, as read from the
\* CSV in 5_custom_evaluator.py.
Seen(row) ==
  IF script = "4_evaluator" THEN row
  ELSE [row EXCEPT !.reference_contexts = EvalIfStr(@),
                   !.retrieved_contexts = EvalIfStr(@),
                   !.retrieved_file = IF @.t = "missing" THEN PyList(<<>>)
                                      ELSE EvalIfStr(@)]

Attempted ==
  {[row |-> Seen(df[i]), m |-> metrics_df[i]] : i \in 1..Len(metrics_df)}
    \cup (IF raised.in = "calculate_metrics"
            THEN {[row |-> Seen(df[Len(metrics_df) + 1]), m |-> Raise(raised.exc)]}
            ELSE {})

Returned(a) == a.m.t = "Series"

Min(S) == CHOOSE x \in S : \A y \in S : x <= y

\* The elements of a list cell; none when the cell holds no list.
Elements(cell) == IF IsList(cell) THEN cell.v ELSE <<>>

\* The 1-based ranks at which the trimmed source_file is a substring of the
\* retrieved identifier.
TrimmedIn(row) ==
  {j \in 1..Len(Elements(row.retrieved_file)) :
     str_in(strip(str(row.source_file)), str(Elements(row.retrieved_file)[j]))}

HasText(x) == IsStr(x) /\ "s" \in DOMAIN x

\* C1 as stated: for every row whose source_file is non-empty and whose
\* retrieved_file is non-empty, if rank j is the first at which the trimmed
\* source_file is a substring of the retrieved identifier, the row is a hit
\* with custom_mrr = 1/j.
C1_AsStated ==
  \A a \in Attempted :
    (/\ script = "4_evaluator"
     /\ HasText(a.row.source_file)
     /\ Len(a.row.source_file.s) > 0
     /\ TrimmedIn(a.row) # {})
      => /\ Returned(a)
         /\ a.m.custom_hit_rate = 1
         /\ a.m.custom_mrr = Frac(1, Min(TrimmedIn(a.row)))

\* C1 amended: the same for every row whose source_file is non-empty after
\* trimming (a blank source_file matches no identifier).
C1_IdentifierMatch ==
  \A a \in Attempted :
    (/\ script = "4_evaluator"
     /\ HasText(a.row.source_file)
     /\ Len(strip(a.row.source_file.s)) > 0
     /\ TrimmedIn(a.row) # {})
      => /\ Returned(a)
         /\ a.m.custom_hit_rate = 1
         /\ a.m.custom_mrr = Frac(1, Min(TrimmedIn(a.row)))

\* A row scored by 4_evaluator.py whose source_file " a " first matches the
\* second retrieved identifier.
C1_Witness ==
  \E a \in Attempted :
    /\ script = "4_evaluator"
    /\ Returned(a)
    /\ a.row.source_file = SourceA
    /\ Min(TrimmedIn(a.row) \cup {99}) = 2
    /\ a.m.custom_mrr = Frac(1, 2)

\* The text stage's normal form, stated on its own: lower case, every run
\* of whitespace inside the text one space, none at either end.
RECURSIVE NormalFrom(_, _, _)
NormalFrom(s, i, out) ==
  IF i > Len(s) THEN out
  ELSE IF IsSpace(s[i]) THEN NormalFrom(s, i + 1, out)
  ELSE NormalFrom(s, i + 1,
                  out \o (IF Len(out) > 0 /\ IsSpace(s[i - 1]) THEN <<" ">> ELSE <<>>)
                      \o <<LowerChar(s[i])>>)

Normal(s) == NormalFrom(s, 1, <<>>)

\* The reference text: the first element of reference_contexts, "" if none.
RefText(row) ==
  IF Len(Elements(row.reference_contexts)) = 0 THEN PyStr(<<>>)
  ELSE Elements(row.reference_contexts)[1]

\* The ranks at which the reference and the retrieved text contain one
\* another after normalisation.
TextIn(row) ==
  {i \in 1..Len(Elements(row.retrieved_contexts)) :
     LET ret == Elements(row.retrieved_contexts)[i]
         ref == RefText(row)
     IN /\ HasText(ref)
        /\ HasText(ret)
        /\ \/ str_in(Normal(ref.s), Normal(ret.s))
           \/ str_in(Normal(ret.s), Normal(ref.s))}

\* The ranks at which the identifier stage can hit: source_file is truthy,
\* str(source_file) is not blank and is, trimmed, inside the identifier.
IdentifierIn(row) ==
  IF Truthy(row.source_file) /\ Len(strip(str(row.source_file))) > 0
    THEN TrimmedIn(row)
    ELSE {}

AllMiss(m) ==
  /\ m.custom_hit_rate = 0
  /\ m.custom_mrr = Frac(0, 1)
  /\ m.custom_precision_at_k = Frac(0, 1)
  /\ m.custom_recall_at_k = 0

\* C2 as stated, for the rows 4_evaluator.py scores: when the identifier
\* stage finds no hit and rank i is the first at which the normalised
\* reference and retrieved text contain one another, the row is a hit of
\* rank i.
C2_TextFallback ==
  \A a \in Attempted :
    (/\ script = "4_evaluator"
     /\ IdentifierIn(a.row) = {}
     /\ TextIn(a.row) # {})
      => /\ Returned(a)
         /\ a.m.custom_hit_rate = 1
         /\ a.m.custom_mrr = Frac(1, Min(TextIn(a.row)))

\* In 5_custom_evaluator.py the identifier stage is reached when the three
\* cells evaluate and the reference is a list or falsy.
StageReached(a) ==
  \/ script = "4_evaluator"
  \/ /\ ~IsRaise(a.row.reference_contexts)
     /\ ~IsRaise(a.row.retrieved_contexts)
     /\ ~IsRaise(a.row.retrieved_file)
     /\ IsList(a.row.reference_contexts) \/ ~Truthy(a.row.reference_contexts)

\* K as the spec configures it: at least 1.
KConfigured ==
  IF script = "4_evaluator" THEN config.TOP_K >= 1 ELSE config.EVAL_K >= 1

\* C3: whenever the identifier stage hits at rank j the row is a hit of rank
\* j with custom_mrr = 1/j, whatever the text stage would have given: a
\* better rank, or an exception on a retrieved text that is no str.
C3_IdentifierFirst ==
  \A a \in Attempted :
    (/\ KConfigured
     /\ StageReached(a)
     /\ IdentifierIn(a.row) # {})
      => /\ Returned(a)
         /\ a.m.custom_hit_rate = 1
         /\ a.m.custom_mrr = Frac(1, Min(IdentifierIn(a.row)))

\* A row whose identifier hit is at rank 2 while text containment holds at
\* rank 1.
C3_Witness ==
  \E a \in Attempted :
    /\ Returned(a)
    /\ Min(IdentifierIn(a.row) \cup {99}) = 2
    /\ 1 \in TextIn(a.row)
    /\ a.m.custom_mrr = Frac(1, 2)

\* C4 as stated, for the rows 4_evaluator.py scores: a row in which no
\* retrieved_file entry contains source_file (an absent source_file is
\* contained in none) and no retrieved text satisfies either containment is
\* scored all-miss.
C4_Miss ==
  \A a \in Attempted :
    (/\ script = "4_evaluator"
     /\ \/ ~HasText(a.row.source_file)
        \/ Len(strip(a.row.source_file.s)) = 0
        \/ TrimmedIn(a.row) = {}
     /\ TextIn(a.row) = {})
      => Returned(a) /\ AllMiss(a.m)

\* C5 as stated, for 4_evaluator.py: no exception propagates out of per-row
\* scoring, so no row's scoring ends the run of the batch.
C5_NoScoringException ==
  script = "4_evaluator" => raised.in # "calculate_metrics"

\* What a list cell degrades to: itself if a list, the list its text
\* spells, the empty list in every other case.
Degraded(cell) ==
  IF cell.t = "missing" THEN cell
  ELSE IF IsList(cell) THEN cell
  ELSE IF IsStr(cell) /\ IsList(cell.lit) THEN cell.lit
  ELSE PyList(<<>>)

\* C6 as stated: parse_list_cell never raises, and once main has parsed the
\* list columns every cell of them holds what the cell read degrades to.
C6_ParseListCell ==
  (script = "4_evaluator" /\ pc \notin {"start", "loaded", "returned"})
    => /\ raised.in # "parse_list_cell"
       /\ \A i \in 1..Len(df) : \A col \in ListColumns :
            df[i][col] = Degraded(csv.rows[i][col])

\* C7 as stated: a row whose retrieved_contexts is empty is scored as a
\* miss, whatever its other fields hold.
C7_AsStated ==
  \A a \in Attempted :
    (/\ script = "4_evaluator"
     /\ Len(Elements(a.row.retrieved_contexts)) = 0)
      => /\ Returned(a)
         /\ a.m.custom_hit_rate = 0
         /\ a.m.custom_mrr = Frac(0, 1)
         /\ a.m.custom_precision_at_k = Frac(0, 1)

\* C7 amended: a row whose retrieved_contexts is empty is scored as a miss
\* whenever the identifier stage finds no hit (always when retrieved_file
\* is empty too), whatever reference_contexts and relevance_scores hold.
C7_EmptyRetrieved ==
  \A a \in Attempted :
    (/\ script = "4_evaluator"
     /\ Len(Elements(a.row.retrieved_contexts)) = 0
     /\ IdentifierIn(a.row) = {})
      => /\ Returned(a)
         /\ a.m.custom_hit_rate = 0
         /\ a.m.custom_mrr = Frac(0, 1)
         /\ a.m.custom_precision_at_k = Frac(0, 1)

\* A scored row with no retrieved text, a reference, a source_file and
\* retrieved identifiers none of which contains it.
C7_Witness ==
  \E a \in Attempted :
    /\ script = "4_evaluator"
    /\ Returned(a)
    /\ Len(Elements(a.row.retrieved_contexts)) = 0
    /\ Len(Elements(a.row.retrieved_file)) > 0
    /\ Len(Elements(a.row.reference_contexts)) > 0
    /\ a.row.source_file = SourceA
    /\ a.m.custom_hit_rate = 0

\* source_file is absent: an empty cell (nan), "" or blank.
SourceAbsent(row) ==
  \/ IsNaN(row.source_file)
  \/ HasText(row.source_file) /\ Len(strip(row.source_file.s)) = 0

\* C8 as stated: a scored row whose source_file is absent is a hit exactly
\* when text containment holds at some rank, and its rank is the first such.
C8_SourceAbsent ==
  \A a \in Attempted :
    (Returned(a) /\ SourceAbsent(a.row))
      => IF TextIn(a.row) = {}
           THEN a.m.custom_hit_rate = 0
           ELSE a.m.custom_mrr = Frac(1, Min(TextIn(a.row)))

\* The K the running script reads.
K == IF script = "4_evaluator" THEN config.TOP_K ELSE config.EVAL_K

\* C9: for a configured K (at least 1), custom_precision_at_k is 1/K on
\* every hit row and 0 on every miss row, and scoring a row never fails on
\* the division.
C9_PrecisionConstant ==
  KConfigured =>
    \A a \in Attempted :
      /\ a.m # Raise("ZeroDivisionError")
      /\ Returned(a) =>
           a.m.custom_precision_at_k =
             (IF a.m.custom_hit_rate = 1 THEN Frac(1, K) ELSE Frac(0, 1))

\* One table with an identifier hit at rank 1 and a text hit at rank 2, of
\* different numbers of retrieved items, both with precision 1/3.
C9_Witness ==
  \E a, b \in Attempted :
    /\ K = 3
    /\ Returned(a) /\ Returned(b)
    /\ IdentifierIn(a.row) # {} /\ a.m.custom_mrr = Frac(1, 1)
    /\ IdentifierIn(b.row) = {} /\ b.m.custom_mrr = Frac(1, 2)
    /\ Len(Elements(a.row.retrieved_contexts)) # Len(Elements(b.row.retrieved_contexts))
    /\ a.m.custom_precision_at_k = Frac(1, 3)
    /\ b.m.custom_precision_at_k = Frac(1, 3)

\* C10 as stated: for every configured K the precision denominator is at
\* least 1: no scoring divides by zero and custom_precision_at_k is in
\* [0, 1], in both evaluator scripts.
C10_KAtLeastOne ==
  \A a \in Attempted :
    /\ a.m # Raise("ZeroDivisionError")
    /\ Returned(a) =>
         /\ a.m.custom_precision_at_k.d >= 1
         /\ 0 <= a.m.custom_precision_at_k.n
         /\ a.m.custom_precision_at_k.n <= a.m.custom_precision_at_k.d

\* A number as the spec means it: a float or an int.
IsNumber(x) == x.t \in {"float", "int"}

\* x >= 0.7 for a number x.
AtLeast07(x) ==
  IF x.t = "int" THEN x.n * 10 >= 7 ELSE ~x.nan /\ x.n * 10 >= 7 * x.d

\* relevance_scores is a non-empty list of numbers, one per retrieved text.
ScoresValid(row) ==
  /\ IsList(row.relevance_scores)
  /\ Len(row.relevance_scores.v) > 0
  /\ Len(row.relevance_scores.v) = Len(Elements(row.retrieved_contexts))
  /\ \A i \in 1..Len(row.relevance_scores.v) : IsNumber(row.relevance_scores.v[i])

\* C11: on every row 4_evaluator.py scores whose relevance_scores is a
\* non-empty list of numbers as long as retrieved_contexts,
\* precision_at_k_relevance is the number of entries >= 0.7 (0.7 included)
\* over the number of entries, whatever hit, rank and K are.
C11_RelevancePrecision ==
  \A a \in Attempted :
    (script = "4_evaluator" /\ Returned(a) /\ ScoresValid(a.row))
      => a.m.precision_at_k_relevance =
           Frac(Cardinality({i \in 1..Len(a.row.relevance_scores.v) :
                               AtLeast07(a.row.relevance_scores.v[i])}),
                Len(a.row.relevance_scores.v))

\* Scenario D: relevance_scores [0.9, 0.4, 0.75] on a hit row with K = 3
\* gives 2/3.
C11_Witness ==
  \E a \in Attempted :
    /\ script = "4_evaluator"
    /\ config.TOP_K = 3
    /\ Returned(a)
    /\ a.row.relevance_scores = PyList(<<Frac(9, 10), Frac(4, 10), Frac(75, 100)>>)
    /\ a.m.custom_hit_rate = 1
    /\ a.m.precision_at_k_relevance = Frac(2, 3)

\* A str that spells a number: digits with at most one point, whitespace
\* around them allowed.
SpellsNumber(x) ==
  /\ HasText(x)
  /\ LET digits == strip(x.s) IN
       /\ \E i \in 1..Len(digits) : IsDigit(digits[i])
       /\ \A i \in 1..Len(digits) : IsDigit(digits[i]) \/ digits[i] = "."
       /\ Cardinality({i \in 1..Len(digits) : digits[i] = "."}) <= 1

\* An entry that is no number and spells none.
NonNumeric(x) == ~IsNumber(x) /\ ~SpellsNumber(x)

\* relevance_scores is absent, empty, holds a non-numeric entry or is not
\* as long as retrieved_contexts.  (An empty relevance_scores cell is
\* parsed to the empty list.)
ScoresUnusable(row) ==
  \/ row.relevance_scores.t = "missing"
  \/ /\ IsList(row.relevance_scores)
     /\ \/ Len(row.relevance_scores.v) = 0
        \/ \E i \in 1..Len(row.relevance_scores.v) :
             NonNumeric(row.relevance_scores.v[i])
        \/ Len(row.relevance_scores.v) # Len(Elements(row.retrieved_contexts))

\* The row with one score of 0.9 per retrieved text.
WithValidScores(row) ==
  [row EXCEPT !.relevance_scores =
     PyList([i \in 1..Len(Elements(row.retrieved_contexts)) |-> Frac(9, 10)])]

SameHitMetrics(m1, m2) ==
  IF IsRaise(m1) \/ IsRaise(m2) THEN m1 = m2
  ELSE /\ m1.custom_hit_rate = m2.custom_hit_rate
       /\ m1.custom_mrr = m2.custom_mrr
       /\ m1.custom_precision_at_k = m2.custom_precision_at_k
       /\ m1.custom_recall_at_k = m2.custom_recall_at_k

\* C12: on every row 4_evaluator.py scores whose relevance_scores is absent,
\* empty, holds a non-numeric entry or differs in length from
\* retrieved_contexts, precision_at_k_relevance is not-a-number and the
\* other four metrics are those of the same row with valid relevance_scores.
C12_RelevanceUnusable ==
  \A a \in Attempted :
    (script = "4_evaluator" /\ ScoresUnusable(a.row))
      => /\ Returned(a) => IsNaN(a.m.precision_at_k_relevance)
         /\ SameHitMetrics(a.m, calculate_metrics(WithValidScores(a.row), config.TOP_K))

\* A hit at rank 2 whose relevance_scores [0.9, "high"] has the right length
\* and a non-numeric entry.
C12_Witness ==
  \E a \in Attempted :
    /\ script = "4_evaluator"
    /\ Returned(a)
    /\ a.row.relevance_scores = PyList(<<Frac(9, 10), PyStr(<<"h", "i", "g", "h">>)>>)
    /\ Len(Elements(a.row.retrieved_contexts)) = 2
    /\ a.m.custom_mrr = Frac(1, 2)
    /\ IsNaN(a.m.precision_at_k_relevance)

\* A run of 4_evaluator.py that started with the result files of an earlier
\* run in place has reached its own table.
SecondRunScored ==
  /\ script = "4_evaluator"
  /\ files.streamlit_parquet # <<>>
  /\ pc = "concat"

ScoredAlone(row) ==
  LET parsed == ParsedRow(row)
  IN IF \E col \in ListColumns : IsRaise(parsed[col])
       THEN Raise("TypeError")
       ELSE calculate_metrics(parsed, config.TOP_K)

\* The metric columns of a row of the results table.
MetricsIn(r) ==
  Metrics(r.custom_hit_rate, r.custom_mrr, r.custom_precision_at_k,
          r.custom_recall_at_k, r.precision_at_k_relevance)

\* C14 as stated, for 4_evaluator.py: the i-th metric row computed is the
\* outcome of scoring the i-th input row on its own, and once the run has
\* ended every input row whose own scoring yields metrics has them at its
\* index of the results table, whatever the other rows of the table hold.
C14_RowIndependence ==
  script = "4_evaluator" =>
    /\ \A i \in 1..Len(metrics_df) : metrics_df[i] = ScoredAlone(csv.rows[i])
    /\ pc \in {"raised", "done"} =>
         \A i \in 1..Len(csv.rows) :
           ScoredAlone(csv.rows[i]).t = "Series" =>
             /\ i <= Len(files.results_csv)
             /\ MetricsIn(files.results_csv[i]) = ScoredAlone(csv.rows[i])

\* What a cell of a list column holds: the list, for a list or the text of
\* one; nothing, for an empty cell (nan) or a column that is absent; the
\* cell itself otherwise (text that spells no list, a number).
Content(cell) ==
  IF IsList(cell) THEN cell
  ELSE IF IsStr(cell) /\ "lit" \in DOMAIN cell /\ IsList(cell.lit) THEN cell.lit
  ELSE IF isna(cell) \/ cell.t = "missing" THEN Missing
  ELSE cell

\* The same for a cell of a results file, where an empty list stands for
\* an empty cell as well.
Persisted(cell) ==
  IF Content(cell) = PyList(<<>>) THEN {Missing, PyList(<<>>)} ELSE {Content(cell)}

\* C15 as stated, for 4_evaluator.py: in every results file written, each
\* row's reference_contexts, retrieved_contexts, retrieved_file and
\* relevance_scores hold what the same row of the input holds, and
\* source_file is the input's.
C15_Frame ==
  script = "4_evaluator" =>
    \A f \in {"results_csv", "results_parquet", "streamlit_parquet"} :
      files[f] # <<>> =>
        /\ Len(files[f]) = Len(csv.rows)
        /\ \A i \in 1..Len(csv.rows) :
             /\ files[f][i].source_file = csv.rows[i].source_file
             /\ \A col \in ListColumns :
                  Content(csv.rows[i][col]) \in Persisted(files[f][i][col])

\* A float in [0, 1].
InUnitInterval(x) ==
  x.t = "float" /\ ~x.nan /\ x.d >= 1 /\ 0 <= x.n /\ x.n <= x.d

\* C16: every metric row 4_evaluator.py computes has custom_hit_rate in
\* {0, 1}, custom_recall_at_k equal to it, custom_mrr in [0, 1] and
\* positive exactly on a hit, and precision_at_k_relevance not-a-number
\* or in [0, 1]; no scoring divides by zero.
C16_OutputRanges ==
  \A a \in Attempted :
    script = "4_evaluator" =>
      /\ a.m # Raise("ZeroDivisionError")
      /\ Returned(a) =>
           /\ a.m.custom_hit_rate \in {0, 1}
           /\ a.m.custom_recall_at_k = a.m.custom_hit_rate
           /\ InUnitInterval(a.m.custom_mrr)
           /\ a.m.custom_mrr.n > 0 <=> a.m.custom_hit_rate = 1
           /\ \/ IsNaN(a.m.precision_at_k_relevance)
              \/ InUnitInterval(a.m.precision_at_k_relevance)

\* A text hit at rank 2 with one of two relevance scores at the threshold
\* or above.
C16_Witness ==
  \E a \in Attempted :
    /\ script = "4_evaluator"
    /\ Returned(a)
    /\ a.m.custom_hit_rate = 1
    /\ a.m.custom_recall_at_k = 1
    /\ a.m.custom_mrr = Frac(1, 2)
    /\ a.m.precision_at_k_relevance = Frac(1, 2)

\* The columns the spec requires of the input; relevance_scores,
\* query_style and retrieved_file are the optional ones.  (No evaluator
\* script reads query_style: the rows of the model carry none.)
SpecRequired == {"reference_contexts", "retrieved_contexts", "source_file"}

\* C17 as stated, for 4_evaluator.py: on an input table that has the
\* columns the spec requires, main does not give up at the column check,
\* whichever optional column is missing, and a run that completes gives
\* every row its metrics, precision_at_k_relevance not-a-number where the
\* table has no relevance_scores.
C17_OptionalFields ==
  (/\ script = "4_evaluator"
   /\ csv.exists
   /\ \A col \in SpecRequired : HasColumn(csv.rows, col))
    => /\ pc # "returned"
       /\ pc = "done" =>
            /\ Len(files.results_csv) = Len(csv.rows)
            /\ \A i \in 1..Len(csv.rows) :
                 ~HasColumn(csv.rows, "relevance_scores")
                   => IsNaN(files.results_csv[i].precision_at_k_relevance)

\* C18 as stated, for 4_evaluator.py: wherever the run is, interrupted or
\* not, each results file either has not been written or holds the complete
\* table, one row per input row with the metrics of that row.
C18_Cancellation ==
  script = "4_evaluator" =>
    \A f \in {"results_csv", "results_parquet", "streamlit_parquet"} :
      \/ files[f] = <<>>
      \/ /\ Len(files[f]) = Len(csv.rows)
         /\ \A i \in 1..Len(csv.rows) :
              MetricsIn(files[f][i]) = ScoredAlone(csv.rows[i])

\* The (text, identifier) pair a reference stands for.
PairOf(reference) ==
  <<clean_text(get(reference.text, PyStr(<<>>))), extract_s3_uri(reference)>>

\* The positions, in visiting order, at which a pair occurs for the first
\* time.
FirstOccurrences(references) ==
  {j \in 1..Len(references) :
     \A k \in 1..(j - 1) : PairOf(references[k]) # PairOf(references[j])}

\* The i-th smallest member of a set of numbers.
Nth(S, i) == CHOOSE x \in S : Cardinality({y \in S : y < x}) = i - 1

\* texts and identifiers are, index by index, the pairs of the references
\* at their first occurrences, in visiting order.
AlignedWith(references, texts, identifiers) ==
  LET first == FirstOccurrences(references)
  IN /\ Len(texts) = Cardinality(first)
     /\ Len(identifiers) = Cardinality(first)
     /\ \A i \in 1..Cardinality(first) :
          <<texts[i], identifiers[i]>> = PairOf(references[Nth(first, i)])

\* C19: the two lists parse_retrieved_references returns for a response have
\* one length and hold, index by index, the (text, identifier) pairs of the
\* response's references in first-occurrence order, each pair once; and the
\* two lists kept for every row, and the two cells written for it, have one
\* length, also for a row whose retrieval failed.
C19_RetrievedAligned ==
  /\ Len(retrieved_data) = Len(retrieved_files_data)
  /\ \A r \in 1..Len(retrieved_data) :
       Len(retrieved_data[r].v) = Len(retrieved_files_data[r].v)
  /\ response # PyNone =>
       AlignedWith(Visited(response),
                   retrieved_data[Len(retrieved_data)].v,
                   retrieved_files_data[Len(retrieved_files_data)].v)
  /\ pc = "done" =>
       /\ Len(csv.rows) = Len(retrieved_data)
       /\ \A r \in 1..Len(csv.rows) :
            Len(csv.rows[r].retrieved_contexts.lit.v)
              = Len(csv.rows[r].retrieved_file.lit.v)

\* A finished run of two rows: retrieval failed for the first, and the
\* response for the second cites one pair twice and another once.
C19_Witness ==
  /\ pc = "done"
  /\ Len(csv.rows) = 2
  /\ Len(error_log) = 1
  /\ csv.rows[1].retrieved_contexts = CsvText(PyList(<<>>))
  /\ csv.rows[1].retrieved_file = CsvText(PyList(<<>>))
  /\ response # PyNone
  /\ Len(Visited(response)) > Cardinality(FirstOccurrences(Visited(response)))
  /\ Len(retrieved_data[2].v) = 1
  /\ Len(retrieved_files_data[2].v) = 1

\* The scores the reranker returned, call after call, as one sequence.
ReturnedScores ==
  Flatten([k \in 1..Len(reranker_calls) |->
             IF IsList(reranker_calls[k].scores) THEN reranker_calls[k].scores.v
             ELSE <<reranker_calls[k].scores>>])

\* A score below 0 became 0, a score above 1 became 1.
Clamped(returned, kept) ==
  /\ (~returned.nan /\ returned.n < 0) => kept = Frac(0, 1)
  /\ (~returned.nan /\ returned.n > returned.d) => kept = Frac(1, 1)

\* The reranker returned one score per submitted pair.
OneScorePerPair ==
  \A k \in 1..Len(reranker_calls) :
    IsList(reranker_calls[k].scores) =>
      Len(reranker_calls[k].scores.v) = Len(reranker_calls[k].pairs)

\* C20: when the reranker returns one score per submitted pair, the
\* relevance_scores of 3_relevance_eval.py hold, for every row, exactly one
\* score per retrieved context of the row (an empty list for a row without
\* any), every score lies in [0, 1], a returned score below 0 has become 0
\* and one above 1 has become 1.
C20_RelevanceScores ==
  (script = "3_relevance_eval" /\ pc \in {"scored", "done"} /\ OneScorePerPair) =>
    /\ Len(relevance_scores) = Len(df)
    /\ \A r \in 1..Len(df) :
         /\ IsList(relevance_scores[r])
         /\ Len(relevance_scores[r].v) =
              Len(Elements(parse_list_cell(df[r].retrieved_contexts)))
         /\ \A i \in 1..Len(relevance_scores[r].v) :
              InUnitInterval(relevance_scores[r].v[i])
    /\ Len(all_scores) = Len(ReturnedScores)
    /\ \A i \in 1..Len(all_scores) : Clamped(ReturnedScores[i], all_scores[i])

\* The sum and the product of the integers f[i], i in S.
RECURSIVE SumOf(_, _)
SumOf(f, S) ==
  IF S = {} THEN 0
  ELSE LET i == CHOOSE i \in S : TRUE IN f[i] + SumOf(f, S \ {i})

RECURSIVE ProductOf(_, _)
ProductOf(f, S) ==
  IF S = {} THEN 1
  ELSE LET i == CHOOSE i \in S : TRUE IN f[i] * ProductOf(f, S \ {i})

\* The plain arithmetic mean of the fractions f[i], i in S, every one with
\* weight 1: MeanNum / MeanDen over the common denominator.
MeanNum(f, S) ==
  LET D == ProductOf([i \in S |-> f[i].d], S)
  IN SumOf([i \in S |-> f[i].n * (D \div f[i].d)], S)
MeanDen(f, S) == ProductOf([i \in S |-> f[i].d], S) * Cardinality(S)

\* v is that mean; a shown value is that mean to the nearest thousandth.
IsMean(v, f, S) ==
  v.t = "float" /\ ~v.nan /\ v.n * MeanDen(f, S) = v.d * MeanNum(f, S)
ShowsMean(value, fmt, f, S) ==
  /\ "thousandths" \in DOMAIN value
  /\ value.fmt = fmt
  /\ LET e == 2000 * MeanNum(f, S) - 2 * value.thousandths * MeanDen(f, S)
     IN -MeanDen(f, S) <= e /\ e <= MeanDen(f, S)

\* The rows of a frame that hold a number in a column, and the metric
\* columns whose mean is defined.
Valued(rows, col) == {i \in 1..Len(rows) : ~rows[i][col].nan}
MetricColumns ==
  {"custom_mrr", "custom_hit_rate", "custom_precision_at_k", "custom_recall_at_k"}
Defined(rows) ==
  {col \in MetricColumns :
     Len(rows) > 0 /\ rows[1][col].t # "missing" /\ Valued(rows, col) # {}}
\* The mean of each defined column, as a fraction.
ColumnMeans(rows) ==
  [col \in Defined(rows) |->
     Frac(MeanNum(Column(rows, col), Valued(rows, col)),
          MeanDen(Column(rows, col), Valued(rows, col)))]

\* C21: every value the dashboard shows for a metric is the plain
\* arithmetic mean of the numbers of that metric's column over the filtered
\* rows ("N/D" when the column holds none), per query_style in the chart;
\* the overall score is the unweighted mean of the per-metric means that are
\* defined and is absent when none is; no row and no metric has a weight.
C21_UnweightedMeans ==
  (script = "streamlit/app" /\ pc \in {"cards", "chart", "done"}) =>
    /\ \A col \in MetricColumns :
         LET shown == {m \in 1..Len(cards) : cards[m].label = col}
         IN IF filtered_df[1][col].t = "missing" THEN shown = {}
            ELSE /\ Cardinality(shown) = 1
                 /\ \A m \in shown :
                      IF col \in Defined(filtered_df)
                        THEN ShowsMean(cards[m].value,
                                       IF col = "custom_hit_rate" THEN "percent"
                                       ELSE "float",
                                       Column(filtered_df, col), Valued(filtered_df, col))
                        ELSE cards[m].value = PyStr(<<"N", "/", "D">>)
    /\ LET score == {m \in 1..Len(cards) : cards[m].label = "PUNTAJE GENERAL"}
       IN IF Defined(filtered_df) = {} THEN score = {}
          ELSE /\ Cardinality(score) = 1
               /\ \A m \in score :
                    ShowsMean(cards[m].value, "percent",
                              ColumnMeans(filtered_df), Defined(filtered_df))
    /\ (pc \in {"chart", "done"} /\ grouped # PyNone) =>
         /\ DOMAIN grouped.mean =
              {filtered_df[i].query_style : i \in 1..Len(filtered_df)} \ {NaN}
         /\ \A style \in DOMAIN grouped.mean :
              LET members == {i \in Valued(filtered_df, config.selected_metric) :
                                filtered_df[i].query_style = style}
              IN IF members = {} THEN grouped.mean[style] = NaN
                 ELSE IsMean(grouped.mean[style],
                             Column(filtered_df, config.selected_metric), members)
    /\ pc = "done" =>
         IF Defined(df) = {} THEN group_score = PyNone
         ELSE IsMean(group_score, ColumnMeans(df), Defined(df))

\* Two styles, a cell without a number, columns of different means: the
\* cards, the chart and the score are shown.
C21_Witness ==
  /\ script = "streamlit/app"
  /\ pc = "done"
  /\ Len(filtered_df) = 2
  /\ filtered_df[1].query_style # filtered_df[2].query_style
  /\ filtered_df[1].custom_precision_at_k = NaN
  /\ filtered_df[2].custom_mrr = Frac(1, 2)
  /\ Len(cards) = 5
  /\ grouped # PyNone
  /\ Cardinality(DOMAIN grouped.mean) = 2
  /\ group_score # PyNone

\* A call of call_with_retry has returned: the loop over the rows is at its
\* top with a row done, or the run is over.
CallReturned ==
  /\ script = "2_alt_retriever_agent"
  /\ pc \in {"retrieving", "done"}
  /\ Len(invocations) > 0

\* No invocation but the last returned; with the call still running, none.
StopsAtFirstReturn ==
  /\ \A i \in 1..(Len(invocations) - 1) : invocations[i] # "returned"
  /\ pc = "calling" => \A i \in 1..Len(invocations) : invocations[i] # "returned"

CallEnds ==
  /\ script = "2_alt_retriever_agent"
  /\ pc \in {"retrieving", "calling"}
  /\ pc' = "retrieving"
CallFails == CallEnds /\ invocations'[Len(invocations')] # "returned"

\* C23: a call of call_with_retry whose attempts all failed appends one
\* entry to error_log, with the operation name and the last error; a call
\* in which an attempt succeeded appends nothing, also after failed
\* attempts; no step removes or changes an entry of error_log.
C23_ErrorLog ==
  [][script = "2_alt_retriever_agent" =>
       IF CallFails
         THEN /\ \A i \in 1..Len(invocations') : invocations'[i] \in AgentErrors
              /\ error_log' =
                   error_log \o <<[operation |-> "invoke_agent",
                                   error |-> invocations'[Len(invocations')]]>>
         ELSE error_log' = error_log]_vars

\* The first row's call failed and was logged; the second row's call
\* succeeded at its second attempt and logged nothing.
C23_Witness ==
  /\ script = "2_alt_retriever_agent"
  /\ pc = "done"
  /\ Len(df) = 2
  /\ config.MAX_RETRIES = 1
  /\ error_log = <<[operation |-> "invoke_agent", error |-> "ClientError"]>>
  /\ invocations = <<"TimeoutError", "returned">>

\* The wait before the jitter after failed attempt n (0-based), in tenths
\* of a second: min(BACKOFF_BASE * 2^n, BACKOFF_MAX).
PreJitterWait(n) ==
  LET doubled == config.BACKOFF_BASE_SECONDS * 2^n
  IN IF doubled < config.BACKOFF_MAX_SECONDS THEN doubled
     ELSE config.BACKOFF_MAX_SECONDS

\* C24: the wait after failed attempt n < MAX_RETRIES is
\* min(BACKOFF_BASE * 2^n, BACKOFF_MAX) plus a jitter in [0, BACKOFF_JITTER];
\* the wait before the jitter does not decrease with n and is at most the
\* cap; there is one wait between two consecutive attempts and none after
\* the attempt that succeeded or the last one that failed.
C24_Backoff ==
  script = "2_alt_retriever_agent" =>
    /\ \A i \in 1..Len(sleeps) :
         /\ i - 1 < config.MAX_RETRIES
         /\ PreJitterWait(i - 1) <= sleeps[i]
         /\ sleeps[i] <= PreJitterWait(i - 1) + config.BACKOFF_JITTER_SECONDS
         /\ PreJitterWait(i - 1) <= config.BACKOFF_MAX_SECONDS
         /\ i > 1 => PreJitterWait(i - 2) <= PreJitterWait(i - 1)
    /\ IF pc = "calling" THEN Len(sleeps) = Len(invocations)
       ELSE Len(invocations) = 0 \/ Len(sleeps) = Len(invocations) - 1

\* Four attempts failed: waits of 1.0 s, 2.0 s plus the whole jitter, and
\* 2.0 s, where the cap of 2.0 s cuts 4.0 s; no wait after the last.
C24_Witness ==
  /\ script = "2_alt_retriever_agent"
  /\ pc = "retrieving"
  /\ Len(invocations) = 4
  /\ response = PyNone
  /\ sleeps = <<10, 23, 20>>

RecordedAs(statuses) ==
  {<<progress_log[i].file_path, progress_log[i].style_name>> :
     i \in {j \in 1..Len(progress_log) : progress_log[j].status \in statuses}}

AtFile == config.KB_FOLDER.v[position.file]
AtPair == <<AtFile.file_path, QUERY_STYLES[position.style].style_name>>
InLoop == pc = "generating" /\ position.file <= Len(config.KB_FOLDER.v)
Submits == Len(submitted') = Len(submitted) + 1

\* C26: resume of the question generation.  A pair that the progress log
\* records as generated or skipped_no_generation is never submitted to the
\* LLM again, in this run or a later one; a pair whose generation failed
\* (no answer after the retries, or no answer that parses after the repair)
\* leaves the progress log as it was, and a pair the log does not record is
\* submitted when the loop comes to it in a file it can use; in one run no
\* pair is submitted twice.
C26_Resume ==
  /\ [][Submits =>
          /\ AtPair \notin RecordedAs({"generated", "skipped_no_generation"})
          /\ submitted' = Append(submitted, AtPair)
          /\ generate_question_for_style(
               AtPair[2], answers'[1],
               IF Len(answers') = 2 THEN answers'[2] ELSE PyNone) = PyNone
             => progress_log' = progress_log]_vars
  /\ [][(/\ InLoop
         /\ position' # position
         /\ AtFile.readable /\ AtFile.length >= 30
         /\ AtPair \notin RecordedAs({"generated", "skipped_no_generation"}))
          => Submits]_vars
  /\ [](\A i, j \in 1..Len(submitted) : submitted[i] = submitted[j] => i = j)

\* In the second run the loop has passed over a pair logged as skipped and
\* submitted the other pair of the same file, which the log does not hold.
C26_Witness ==
  /\ position.run = 2
  /\ Len(submitted) = 1
  /\ Len(progress_log) = 1
  /\ progress_log[1].status = "skipped_no_generation"
  /\ progress_log[1].file_path = submitted[1][1]
  /\ progress_log[1].style_name # submitted[1][2]
  /\ answers = <<PyNone>>

\* The rows of the pipeline CSV that belong to a file and a style.
RowsOf(file, style_name) ==
  {r \in 1..Len(csv.rows) :
     /\ csv.rows[r].reference_contexts = CsvText(PyList(<<file.chunk_text>>))
     /\ csv.rows[r].query_style = PyStr(style_name)}

\* C27: over any runs and interruptions of the question generation, each
\* (file, style) pair has at most one row in the pipeline CSV, and has one
\* exactly when the progress log records the pair as generated.
C27_OneRowPerPair ==
  \A f \in 1..Len(KbFiles), q \in 1..Len(QUERY_STYLES) :
    LET rows == RowsOf(KbFiles[f], QUERY_STYLES[q].style_name)
    IN /\ Cardinality(rows) <= 1
       /\ rows # {} <=> <<KbFiles[f].file_path, QUERY_STYLES[q].style_name>>
                          \in RecordedAs({"generated"})

\* The answer that carries the sentinel for the style at hand.
SentinelAnswer ==
  LlmContent(PyStr(lower(AtPair[2]) \o <<" ">>),
             PyStr(<<" ", "\"">> \o NO_GENERATION_SENTINEL \o <<"\"">>))

\* C28: when the LLM answers a pair with the no-generation sentinel, be it
\* at once or to the repair prompt, no row is appended to the pipeline CSV,
\* the pair is logged as skipped_no_generation and counted as processed,
\* and the loop goes on with the next style of the file or, after the last
\* style, with the next file.
C28_Sentinel ==
  [][(Submits /\ answers'[Len(answers')] = SentinelAnswer) =>
       /\ csv' = csv
       /\ progress_log' = Append(progress_log,
            [file_path |-> AtPair[1], style_name |-> AtPair[2],
             status |-> "skipped_no_generation"])
       /\ AtPair \in processed_pairs'
       /\ AtPair \in load_processed_pairs(progress_log')
       /\ pc' = "generating"
       /\ position' = IF position.style < Len(QUERY_STYLES)
                        THEN [position EXCEPT !.style = position.style + 1]
                        ELSE [position EXCEPT !.file = position.file + 1, !.style = 1]]_vars

\* A run in which the first pair got the sentinel, and a later style and a
\* later file got their questions.
C28_Witness ==
  /\ position.run = 1
  /\ Len(progress_log) = 3
  /\ progress_log[1].status = "skipped_no_generation"
  /\ progress_log[2].status = "generated"
  /\ progress_log[2].file_path = progress_log[1].file_path
  /\ progress_log[3].status = "generated"
  /\ progress_log[3].file_path # progress_log[1].file_path
  /\ Len(csv.rows) = 2

\* The pairs handed to the reranker, call after call, as one sequence; the
\* chunks of row r, and the number of pairs of the rows before row r.
SubmittedPairs == Flatten([k \in 1..Len(reranker_calls) |-> reranker_calls[k].pairs])
ChunksOf(r) == Elements(parse_list_cell(df[r].retrieved_contexts))
PairsBefore(r) == SumOf([q \in 1..Len(df) |-> Len(ChunksOf(q))], 1..(r - 1))

\* C29: compute_relevance_scores lists the (query, chunk) pairs row by row
\* and, within a row, rank by rank; it submits them to the reranker in
\* that order in consecutive batches of 1 to 64 pairs, every pair once
\* (a bare score returned for a batch counts as a list of one); row r then
\* gets the scores of its own chunks in rank order; and when no row has a
\* chunk the result is one empty list per row and the reranker is not called.
C29_Batches ==
  (script = "3_relevance_eval" /\ pc \in {"scoring", "scored", "done"}) =>
    /\ Len(all_pairs) = PairsBefore(Len(df) + 1)
    /\ \A r \in 1..Len(df) : \A i \in 1..Len(ChunksOf(r)) :
         /\ all_pairs[PairsBefore(r) + i].chunk = str(ChunksOf(r)[i])
         /\ all_pairs[PairsBefore(r) + i].query =
              (IF is_empty_text(df[r].user_input) THEN <<>> ELSE str(df[r].user_input))
    /\ \A k \in 1..Len(reranker_calls) :
         /\ Len(reranker_calls[k].pairs) >= 1
         /\ Len(reranker_calls[k].pairs) <= 64
    /\ Len(SubmittedPairs) <= Len(all_pairs)
    /\ SubmittedPairs = SubSeq(all_pairs, 1, Len(SubmittedPairs))
    /\ pc \in {"scored", "done"} =>
         /\ SubmittedPairs = all_pairs
         /\ Len(ReturnedScores) = Len(all_pairs)
         /\ Len(relevance_scores) = Len(df)
         /\ \A r \in 1..Len(df) :
              /\ IsList(relevance_scores[r])
              /\ Len(relevance_scores[r].v) = Len(ChunksOf(r))
              /\ \A i \in 1..Len(ChunksOf(r)) :
                   relevance_scores[r].v[i] = clamp_score(ReturnedScores[PairsBefore(r) + i])
         /\ Len(all_pairs) = 0 => reranker_calls = <<>>

\* Two rows of 30 and 15 chunks were scored two pairs at a time, the last
\* pair alone and with a bare score for an answer.
C29_Witness ==
  /\ script = "3_relevance_eval"
  /\ pc = "done"
  /\ Len(df) = 2
  /\ Len(reranker_calls) = 23
  /\ Len(reranker_calls[1].pairs) = 2
  /\ Len(reranker_calls[23].pairs) = 1
  /\ ~IsList(reranker_calls[23].scores)
  /\ Len(relevance_scores[2].v) = 15

\* The reference text is empty: reference_contexts has no element, or its
\* first element is blank.  The retrieved text of rank i is blank.
RefEmpty(row) ==
  \/ Len(Elements(row.reference_contexts)) = 0
  \/ HasText(RefText(row)) /\ Normal(RefText(row).s) = <<>>

RetEmpty(row, i) ==
  /\ HasText(Elements(row.retrieved_contexts)[i])
  /\ Normal(Elements(row.retrieved_contexts)[i].s) = <<>>

\* C30 as stated, for the rows 4_evaluator.py scores: when the identifier
\* stage finds no hit, an empty reference text makes every row that has a
\* retrieved context a hit of rank 1, and a retrieved context of rank i
\* that is blank makes the row a hit of rank i or better.
C30_EmptyTexts ==
  \A a \in Attempted :
    (script = "4_evaluator" /\ IdentifierIn(a.row) = {}) =>
      /\ (RefEmpty(a.row) /\ Len(Elements(a.row.retrieved_contexts)) >= 1)
           => /\ Returned(a)
              /\ a.m.custom_hit_rate = 1
              /\ a.m.custom_mrr = Frac(1, 1)
      /\ \A i \in 1..Len(Elements(a.row.retrieved_contexts)) :
           RetEmpty(a.row, i)
             => /\ Returned(a)
                /\ a.m.custom_hit_rate = 1
                /\ \E j \in 1..i : a.m.custom_mrr = Frac(1, j)

====
